---- MODULE Spec2Model ----
(***************************************************************************)
(* Process manager, scheduler, exit paths and int 0x80 syscall layer of    *)
(* the goofy-os kernel (kernel/src/process.rs, kernel/src/interrupts.rs).  *)
(*                                                                         *)
(* One CPU.  `mode` is where the CPU is executing; a timer tick can only   *)
(* arrive in the modes that run with interrupts enabled.                   *)
(***************************************************************************)
EXTENDS Integers, Sequences, FiniteSets, TLC

VARIABLES
    processes,          \* ProcessManager.processes : Vec<Process>
    current_pid,        \* ProcessManager.current_pid
    next_pid,           \* ProcessManager.next_pid
    lock,               \* holder of the PROCESS_MANAGER spin mutex
    cr3,                \* CPU register CR3 (a top-level table frame)
    kernel_page_table,  \* interrupts::KERNEL_PAGE_TABLE (NoTable = None)
    free_frames,        \* frames on the allocator's free list
    mode,               \* where the CPU is executing
    rip,                \* instruction pointer of the running process
    rax,                \* RAX seen by the running process
    sys,                \* trap frame of the syscall being handled
    switch_to,          \* the Process clone handed to context_switch_to
    exiting,            \* the Process clone exit_current_process works on
    returned,           \* history: PIDs returned by successful creations
    exited,             \* history: PIDs that went through an exit
    sys_exited,         \* history: PIDs whose syscall 60 was handled
    last_exit,          \* history: PID removed by exit_current_process
                        \*          since the last scheduling decision
    irq,                \* the keyboard interrupt being handled
    double_freed,       \* history: frames freed while already on the free list
    created,            \* history: the last create_process call and its result
    image,              \* loader check: the image handed to create_process
    load,               \* loader check: what create_process made of it
    disk,               \* the FAT32 volume behind the DiskOperations trait
    fs,                 \* manager::FILESYSTEM, or why Fat32FileSystem::new failed
    fs_op,              \* the last filesystem call and its result
    last_created,       \* history: the last file a create_file call made
    last_deleted,       \* history: the last file a delete_file call removed
    fs_cpu,             \* interrupt flag, FILESYSTEM lock and the mutating
                        \* manager call in progress
    abi,                \* registers and kernel stack across one int 0x80
    iret,               \* what the last context switch loaded with iretq
    born,               \* history: entry point and initial stack pointer
                        \*          of every process created
    pic,                \* the interrupt controller: lines in service
    tick,               \* the timer interrupt being handled
    kbd,                \* the keyboard: keys pressed, interrupt being handled
    scancode_queue,     \* task::keyboard::SCANCODE_QUEUE
    heard,              \* history: scancodes the queue took, scancodes the
                        \*          consumer was given
    executor,           \* task::executor::Executor and where its loop stands
    waker,              \* task::keyboard::WAKER (an AtomicWaker)
    stream              \* the keyboard task inside poll_next, and the
                        \* keyboard interrupt inside add_scancode

\* the variables of the loader check
loader_vars == <<image, load>>

\* the variables of the filesystem
fs_vars == <<disk, fs, fs_op, last_created, last_deleted, fs_cpu>>

\* the variables of the kernel
kernel_vars == <<processes, current_pid, next_pid, lock, cr3,
                 kernel_page_table, free_frames, mode, rip, rax, sys,
                 switch_to, exiting, returned, exited, sys_exited, last_exit,
                 irq, double_freed, created>>

\* the register file, the interrupt controller and the scancode queue
task_vars == <<executor, waker, stream>>
irq_vars == <<pic, tick, kbd, scancode_queue, heard, task_vars>>
cpu_vars == <<abi, iret, born, irq_vars>>

vars == <<kernel_vars, loader_vars, fs_vars, cpu_vars>>

-----------------------------------------------------------------------------
(* Bounds of the model *)

\* creations are attempted while next_pid <= MaxPid
MaxPid == 3
\* allocatable physical frames are 1..MaxFrames
MaxFrames == 6
\* user code offsets are 0..MaxRip
MaxRip == 2
\* loader check: file and bss sizes go up to this many whole pages (and a bit)
MaxSegPages == 1
\* the data area of a volume holds the clusters 2..MaxCluster
MaxCluster == 5
\* bytes of file data in a cluster (sectors_per_cluster * bytes_per_sector)
ClusterSize == 2
\* directory entries in a cluster (cluster_size / size_of::<DirectoryEntry>())
EntriesPerCluster == 2
\* a directory of a volume has up to this many entries before its end
MaxEntries == 3

\* keys pressed in one run of the keyboard
MaxKeys == 103
\* keys pressed before the keyboard task has made the queue
MaxEarlyKeys == 1

-----------------------------------------------------------------------------
(* Program constants *)

\* u64::MAX, written as the two's-complement reading of the all-ones word
U64_MAX == -1
PROCESS_EXITED == U64_MAX
\* the frame of the kernel's top-level table (ProcessManager.kernel_cr3)
KernelFrame == 0
NoTable == MaxFrames + 1
Frames == 1..MaxFrames

\* Addresses are words of WordBits bits: the u64 arithmetic of the loader is
\* carried out modulo 2^WordBits (every address of the model is below it).
WordBits == 30
WordMod == 2 ^ WordBits
\* page size, 4096 = 0xfff + 1
PageSize == 4096
\* the user stack: 4 KiB mapped at 0x800000
StackBase == 8388608
StackSize == 4096
\* RFLAGS of a fresh RegisterState, 0x202
InitialRflags == 514
\* where the example programs are linked, 0x400000
UserText == 4194304

\* addresses: the user lower half is below KernelBase, kernel text above it
KernelBase == WordMod \div 2
KprocEntry == KernelBase
SyscallRip == KernelBase + 1
IdleRip == KernelBase + 2
KernelRsp == KernelBase + 3
IsUserAddr(a) == a < KernelBase

NoPid == 0
NoSys == [active |-> FALSE, rax |-> 0, rdi |-> 0, rsi |-> 0, rdx |-> 0,
          rip |-> 0, original_cr3 |-> NoTable, entry_cr3 |-> NoTable,
          phase |-> "none"]
\* no disk attached
NoDisk == [boot |-> <<>>, fat |-> <<>>, dir |-> <<>>, data |-> <<>>,
           beyond |-> "error"]
NoOp == [op |-> "none"]
NoFile == [name |-> <<>>, data |-> <<>>, first_cluster |-> 0]
NoDeleted == [name |-> <<>>, chain |-> {}]
NoCall == [op |-> "none"]
\* no manager call in progress, the lock free, interrupts as the caller has them
CpuIdle(enabled) ==
    [interrupts |-> enabled, caller |-> enabled, was_enabled |-> enabled,
     lock |-> FALSE, call |-> NoCall, preempted |-> FALSE, calls |-> 0]
\* no image: a byte slice of length 0
NoAbi == [phase |-> "none"]
NoIret == [path |-> "none"]
NoTick == [step |-> "none", eois |-> 0, handed_over |-> FALSE, from |-> "none"]
NoKey == [step |-> "none", scancode |-> 0, from |-> "none"]
NoImage == [well_formed |-> FALSE, entry |-> 0, len |-> 0, segments |-> <<>>]
NoIrq == [active |-> FALSE, original_cr3 |-> NoTable, entry_cr3 |-> NoTable,
          from |-> "none"]
NoProcess == [pid |-> NoPid, state |-> "Terminated", process_type |-> "Kernel",
              page_table_frame |-> KernelFrame, user_frames |-> {},
              pages |-> <<>>, rip |-> 0, rsp |-> 0, rflags |-> 0, gprs |-> 0,
              has_saved_state |-> FALSE]

-----------------------------------------------------------------------------
(* Helpers over the process table *)

Pids(procs) == {procs[i].pid : i \in 1..Len(procs)}

\* position of the entry with this pid (1-based), 0 when absent
Position(procs, pid) ==
    IF \E i \in 1..Len(procs) : procs[i].pid = pid
    THEN CHOOSE i \in 1..Len(procs) :
            procs[i].pid = pid /\ \A j \in 1..(i - 1) : procs[j].pid # pid
    ELSE 0

get_process(procs, pid) ==
    IF Position(procs, pid) = 0 THEN NoProcess ELSE procs[Position(procs, pid)]

\* the entry is left in the table
RemoveAt_kept(procs, idx) == procs

\* Vec::remove
RemoveAt(procs, idx) ==
    [i \in 1..(Len(procs) - 1) |-> IF i < idx THEN procs[i] ELSE procs[i + 1]]

\* lowest-numbered free frame, as the allocator hands frames out in order
FirstFree(free) == CHOOSE f \in free : \A g \in free : f <= g

-----------------------------------------------------------------------------
(* ProcessManager::get_next_ready_process *)

\* the scan without the round-robin start: always from the first entry
StartIndex_from_zero(procs, cur) == 0

\* 0-based index the scan starts from
StartIndex(procs, cur) ==
    IF cur = NoPid THEN 0
    ELSE IF Position(procs, cur) = 0 THEN 0
         ELSE Position(procs, cur) % Len(procs)

ScanIndex(procs, start, i) == ((start + i) % Len(procs)) + 1

\* NoPid stands for None
get_next_ready_process(procs, cur) ==
    LET start == StartIndex(procs, cur)
        hits  == {i \in 0..(Len(procs) - 1) :
                     procs[ScanIndex(procs, start, i)].state = "Ready"}
    IN
    IF hits # {}
    THEN procs[ScanIndex(procs, start,
                         CHOOSE i \in hits : \A j \in hits : i <= j)].pid
    ELSE IF cur # NoPid /\ Position(procs, cur) # 0 THEN cur ELSE NoPid

-----------------------------------------------------------------------------
(* Construction *)

NoCreated == [binary |-> NoImage, result |-> "none", pid |-> NoPid]
NotLoaded == [result |-> "none", free |-> {}, process |-> NoProcess]

\* ProcessManager::new and the boot state of the CPU
KernelInit ==
    /\ processes = <<>>
    /\ current_pid = NoPid
    /\ next_pid = 1
    /\ lock = "free"
    /\ cr3 = KernelFrame
    /\ kernel_page_table = NoTable
    /\ free_frames = Frames
    /\ mode = "kernel"
    /\ rip = 0
    /\ rax = 0
    /\ sys = NoSys
    /\ switch_to = NoProcess
    /\ exiting = NoProcess
    /\ returned = <<>>
    /\ exited = {}
    /\ sys_exited = {}
    /\ last_exit = NoPid
    /\ irq = NoIrq
    /\ double_freed = {}
    /\ created = NoCreated

\* no disk attached, no filesystem call made
FsIdle ==
    /\ disk = NoDisk
    /\ fs = "none"
    /\ fs_op = NoOp
    /\ last_created = NoFile
    /\ last_deleted = NoDeleted
    /\ fs_cpu = CpuIdle(TRUE)

\* no syscall wrapper, interrupt controller or scancode queue in the picture
\* Executor::new(), AtomicWaker::new(), and no task or interrupt under way
NoTask == 0

TaskQuiet ==
    /\ executor = [pc |-> "main", tasks |-> {}, task_queue |-> <<>>,
                   waker_cache |-> {}, polling |-> NoTask, next_id |-> 1,
                   held |-> {}, fires |-> 0, polled |-> {}, done |-> {}]
    /\ waker = [state |-> {}, slot |-> NoTask]
    /\ stream = [pc |-> "new", irq |-> "none", grabbed |-> NoTask,
                 keys |-> 0]

IrqQuiet ==
    /\ pic = {}
    /\ tick = NoTick
    /\ kbd = [keys |-> 0, irq |-> NoKey]
    /\ scancode_queue = [initialised |-> FALSE, items |-> <<>>]
    /\ heard = [pushed |-> <<>>, popped |-> <<>>]
    /\ TaskQuiet

CpuQuiet ==
    /\ abi = NoAbi
    /\ iret = NoIret
    /\ born = {}
    /\ IrqQuiet

Init ==
    /\ KernelInit
    /\ image = NoImage
    /\ load = NotLoaded
    /\ FsIdle
    /\ CpuQuiet

\* kernel_main records the boot CR3 for the interrupt handlers
set_kernel_page_table ==
    /\ mode = "kernel"
    /\ kernel_page_table = NoTable
    /\ kernel_page_table' = cr3
    /\ UNCHANGED <<processes, current_pid, next_pid, lock, cr3, free_frames,
                   mode, rip, rax, sys, switch_to, exiting, returned, exited,
                   sys_exited, last_exit, irq, double_freed, created,
                   loader_vars, fs_vars, cpu_vars>>

\* ensure_kernel_page_table leaves CR3 alone
EnsuredCr3_unswitched == cr3

\* CR3 after ensure_kernel_page_table, and the Option it returns
EnsuredCr3 ==
    IF kernel_page_table # NoTable /\ cr3 # kernel_page_table
    THEN kernel_page_table ELSE cr3

OriginalCr3 ==
    IF kernel_page_table # NoTable /\ cr3 # kernel_page_table
    THEN cr3 ELSE NoTable

-----------------------------------------------------------------------------
(* Process creation *)

\* a counter that is not advanced
NextPid_stuck(n) == n

\* self.next_pid += 1
NextPid(n) == n + 1

\* ---- the ELF image and the loader loop of create_process ----

\* An image is what goblin makes of the byte slice: whether it parses, its
\* entry point, its length in bytes and its program headers.  The byte at
\* offset i of every image is ImageByte(i), which is never zero.
ImageByte(i) == (i % 251) + 1

Min(a, b) == IF a < b THEN a ELSE b

\* a & b on words
RECURSIVE BitAnd(_, _, _)
BitAnd(a, b, n) ==
    IF n = 0 \/ a = 0 \/ b = 0 THEN 0
    ELSE (a % 2) * (b % 2) + 2 * BitAnd(a \div 2, b \div 2, n - 1)

And(a, b) == BitAnd(a, b, WordBits)

\* !a on words
Not(a) == (WordMod - 1) - a

\* mem_start & !0xfff
segment_virtual_addr(ph) == And(ph.p_vaddr, Not(PageSize - 1))

\* (segment_end_addr + 4095) & !0xfff - (mem_start & !0xfff): the
\* subtraction binds tighter than the &
aligned_size(ph) ==
    And(ph.p_vaddr + ph.p_memsz + (PageSize - 1),
        Not(PageSize - 1) - And(ph.p_vaddr, Not(PageSize - 1)))

pages_needed(ph) == aligned_size(ph) \div PageSize

\* every segment is mapped writable
segment_flags_all_writable(ph) ==
    {"PRESENT", "USER_ACCESSIBLE", "WRITABLE"}
        \cup (IF "X" \notin ph.p_flags THEN {"NO_EXECUTE"} ELSE {})

segment_flags(ph) ==
    {"PRESENT", "USER_ACCESSIBLE"}
        \cup (IF "W" \in ph.p_flags THEN {"WRITABLE"} ELSE {})
        \cup (IF "X" \notin ph.p_flags THEN {"NO_EXECUTE"} ELSE {})

\* the source offset is not advanced from page to page
src_offset_first_page(ph, page_start_addr) == 0

\* offset into segment_data of the first byte copied to this page
src_offset(ph, page_start_addr) ==
    IF page_start_addr >= ph.p_vaddr THEN page_start_addr - ph.p_vaddr ELSE 0

\* What one page of a segment holds after the loop body: the frame is zeroed
\* and data_len bytes of the image, from offset src on, are copied to
\* data_start.
PageContent(ph, page_idx) ==
    LET page_start_addr == segment_virtual_addr(ph) + page_idx * PageSize
        original_segment_start == ph.p_vaddr
        original_segment_end == ph.p_vaddr + ph.p_filesz
        data_start_in_page ==
            IF page_start_addr < original_segment_start
            THEN original_segment_start - page_start_addr ELSE 0
        data_end_in_page ==
            IF page_start_addr + PageSize > original_segment_end
            THEN (IF original_segment_end > page_start_addr
                  THEN original_segment_end - page_start_addr ELSE 0)
            ELSE PageSize
        copy_size == data_end_in_page - data_start_in_page
        off == src_offset(ph, page_start_addr)
    IN  IF data_start_in_page < data_end_in_page
            /\ off < ph.p_filesz /\ copy_size > 0
        THEN [data_start |-> data_start_in_page,
              data_len |-> Min(copy_size, ph.p_filesz - off),
              src |-> ph.p_offset + off]
        ELSE [data_start |-> 0, data_len |-> 0, src |-> 0]

MappedPage(vaddr, frame, flags, content) ==
    [vaddr |-> vaddr, frame |-> frame, flags |-> flags,
     data_start |-> content.data_start, data_len |-> content.data_len,
     src |-> content.src]

IsMapped(pages, vaddr) == \E i \in 1..Len(pages) : pages[i].vaddr = vaddr

\* ProcessAddressSpace::map_user_memory for one page: an error when the page
\* is already mapped.  The table frames of an address space (top level and
\* intermediate) are stood for by its one table frame.
map_user_memory(pages, page) ==
    IF IsMapped(pages, page.vaddr) THEN pages ELSE Append(pages, page)

\* for page_idx in 0..pages_needed: allocate, map, zero and copy.
\* st is [result, free, pages].
RECURSIVE MapPages(_, _, _)
MapPages(ph, page_idx, st) ==
    IF page_idx >= pages_needed(ph) THEN st
    ELSE IF st.free = {} THEN [st EXCEPT !.result = "OutOfMemory"]
    ELSE LET page_frame == FirstFree(st.free)
             page == MappedPage(segment_virtual_addr(ph) + page_idx * PageSize,
                                page_frame, segment_flags(ph),
                                PageContent(ph, page_idx))
         IN  IF IsMapped(st.pages, page.vaddr)
             THEN [st EXCEPT !.result = "OutOfMemory",
                             !.free = st.free \ {page_frame}]
             ELSE MapPages(ph, page_idx + 1,
                           [st EXCEPT !.free = st.free \ {page_frame},
                                      !.pages = map_user_memory(st.pages, page)])

\* the bounds check is dropped
SegmentInImage_unchecked(binary, ph) == TRUE

\* file_end > binary.len() is refused
SegmentInImage(binary, ph) == ph.p_offset + ph.p_filesz <= binary.len

\* for (i, ph) in elf.program_headers
RECURSIVE LoadSegments(_, _, _)
LoadSegments(binary, i, st) ==
    IF i > Len(binary.segments) THEN st
    ELSE LET ph == binary.segments[i]
         IN  IF ph.p_type # "PT_LOAD" THEN LoadSegments(binary, i + 1, st)
             ELSE IF ~SegmentInImage(binary, ph)
                  THEN [st EXCEPT !.result = "InvalidProgram"]
             ELSE LET after == MapPages(ph, 0, st)
                  IN  IF after.result # "Ok" THEN after
                      ELSE LoadSegments(binary, i + 1, after)

\* the user stack page
StackPage(frame) ==
    MappedPage(StackBase, frame,
               {"PRESENT", "WRITABLE", "USER_ACCESSIBLE", "NO_EXECUTE"},
               [data_start |-> 0, data_len |-> 0, src |-> 0])

\* stack_virtual_addr + 0x1000 - 8
InitialStackPointer == StackBase + StackSize - 8

FramesOf(pages) == {pages[i].frame : i \in 1..Len(pages)}

\* the general registers other than RIP, RSP and RFLAGS are all left zero
NewUserProcess_entry_in_rax(pid, binary, table, pages) ==
    [pid |-> pid, state |-> "Ready", process_type |-> "User",
     page_table_frame |-> table, user_frames |-> FramesOf(pages),
     pages |-> pages, rip |-> binary.entry, rsp |-> InitialStackPointer,
     rflags |-> InitialRflags, gprs |-> binary.entry,
     has_saved_state |-> FALSE]

\* the Process literal of create_process; gprs stands for the fifteen
\* registers RegisterState::new leaves at zero
NewUserProcess(pid, binary, table, pages) ==
    [pid |-> pid, state |-> "Ready", process_type |-> "User",
     page_table_frame |-> table, user_frames |-> FramesOf(pages),
     pages |-> pages, rip |-> binary.entry, rsp |-> InitialStackPointer,
     rflags |-> InitialRflags, gprs |-> 0, has_saved_state |-> FALSE]

NewKernelProcess(pid) ==
    [pid |-> pid, state |-> "Ready", process_type |-> "Kernel",
     page_table_frame |-> KernelFrame, user_frames |-> {}, pages |-> <<>>,
     rip |-> KprocEntry, rsp |-> KernelRsp, rflags |-> InitialRflags,
     gprs |-> 0, has_saved_state |-> FALSE]

\* instruction_pointer and stack_pointer of the Process literal
Birth(process) == [pid |-> process.pid, rip |-> process.rip,
                   rsp |-> process.rsp]

\* ProcessManager::create_process as a function of the image, the PID to
\* assign and the free list: the result ("Ok", an error kind, or "Panic"),
\* the free list afterwards and the process that is pushed.
CreateProcess(binary, pid, free) ==
    IF ~binary.well_formed
    THEN \* Elf::parse(binary).expect(..)
         [result |-> "Panic", free |-> free, process |-> NoProcess]
    ELSE IF free = {}
    THEN \* ProcessAddressSpace::new fails
         [result |-> "OutOfMemory", free |-> free, process |-> NoProcess]
    ELSE LET table == FirstFree(free)
             rest  == free \ {table}
         IN  IF rest = {}
             THEN \* no frame for the stack
                  [result |-> "OutOfMemory", free |-> rest,
                   process |-> NoProcess]
             ELSE LET stack == FirstFree(rest)
                      st == LoadSegments(binary, 1,
                                [result |-> "Ok", free |-> rest \ {stack},
                                 pages |-> <<StackPage(stack)>>])
                  IN  [result |-> st.result, free |-> st.free,
                       process |-> IF st.result = "Ok"
                                   THEN NewUserProcess(pid, binary, table,
                                                       st.pages)
                                   ELSE NoProcess]

\* program headers
Segment(vaddr, offset, filesz, memsz, flags) ==
    [p_type |-> "PT_LOAD", p_vaddr |-> vaddr, p_offset |-> offset,
     p_filesz |-> filesz, p_memsz |-> memsz, p_flags |-> flags]

Image(entry, len, segments) ==
    [well_formed |-> TRUE, entry |-> entry, len |-> len,
     segments |-> segments]

\* the images handed to create_process by the kernel: a small program
\* linked at 0x400000, one whose segment runs past the end of the image, one
\* whose entry point is a kernel address, and raw machine code that is no
\* ELF file (example_program.rs)
Binaries ==
    { Image(UserText, 64, <<Segment(UserText, 0, 16, 16, {"R", "X"})>>),
      Image(UserText, 64, <<Segment(UserText, 56, 16, 16, {"R", "X"})>>),
      Image(KernelBase, 64, <<Segment(UserText, 0, 16, 16, {"R", "X"})>>),
      [well_formed |-> FALSE, entry |-> 0, len |-> 81, segments |-> <<>>] }

\* kernel code that is not an interrupt handler
InKernelCode == mode \in {"kernel", "kproc"}

\* queue_user_program takes the lock (interrupts stay enabled)
queue_user_program_lock ==
    /\ InKernelCode
    /\ kernel_page_table # NoTable
    /\ lock = "free"
    /\ next_pid <= MaxPid
    /\ lock' = "queue_user"
    /\ UNCHANGED <<processes, current_pid, next_pid, cr3, kernel_page_table,
                   free_frames, mode, rip, rax, sys, switch_to, exiting,
                   returned, exited, sys_exited, last_exit, irq, double_freed,
                   created, loader_vars, fs_vars, cpu_vars>>

\* the PID is taken when the call starts
Registered_pid_taken_first(procs, pid, r) ==
    IF r.result = "Ok"
    THEN [processes |-> Append(procs, r.process), next_pid |-> NextPid(pid)]
    ELSE [processes |-> procs, next_pid |-> NextPid(pid)]

\* the table and next_pid after create_process: self.processes.push(process)
\* and self.next_pid += 1 stand after the last `?` and the last return Err
Registered(procs, pid, r) ==
    IF r.result = "Ok"
    THEN [processes |-> Append(procs, r.process), next_pid |-> NextPid(pid)]
    ELSE [processes |-> procs, next_pid |-> pid]

\* ProcessManager::create_process, then the guard is dropped; a panic leaves
\* the kernel halted with the guard alive
create_process(binary) ==
    /\ InKernelCode
    /\ lock = "queue_user"
    /\ LET r == CreateProcess(binary, next_pid, free_frames)
       IN  /\ created' = [binary |-> binary, result |-> r.result,
                          pid |-> IF r.result = "Ok" THEN next_pid ELSE NoPid]
           /\ free_frames' = r.free
           /\ processes' = Registered(processes, next_pid, r).processes
           /\ next_pid' = Registered(processes, next_pid, r).next_pid
           /\ IF r.result = "Ok"
              THEN /\ returned' = Append(returned, next_pid)
                   /\ born' = born \cup {Birth(r.process)}
              ELSE UNCHANGED <<returned, born>>
           /\ IF r.result = "Panic"
              THEN mode' = "panic" /\ UNCHANGED lock
              ELSE lock' = "free" /\ UNCHANGED mode
    /\ UNCHANGED <<current_pid, cr3, kernel_page_table, rip, rax, sys,
                   switch_to, exiting, exited, sys_exited, last_exit, irq,
                   double_freed, loader_vars, fs_vars, abi, iret, irq_vars>>

\* queue_kernel_process takes the lock
queue_kernel_process_lock ==
    /\ InKernelCode
    /\ kernel_page_table # NoTable
    /\ lock = "free"
    /\ next_pid <= MaxPid
    /\ lock' = "queue_kernel"
    /\ UNCHANGED <<processes, current_pid, next_pid, cr3, kernel_page_table,
                   free_frames, mode, rip, rax, sys, switch_to, exiting,
                   returned, exited, sys_exited, last_exit, irq, double_freed, created,
                   loader_vars, fs_vars, cpu_vars>>

\* ProcessManager::create_kernel_process, then the guard is dropped
create_kernel_process ==
    /\ InKernelCode
    /\ lock = "queue_kernel"
    /\ lock' = "free"
    /\ processes' = Append(processes, NewKernelProcess(next_pid))
    /\ next_pid' = NextPid(next_pid)
    /\ returned' = Append(returned, next_pid)
    /\ born' = born \cup {Birth(NewKernelProcess(next_pid))}
    /\ UNCHANGED <<current_pid, cr3, kernel_page_table, free_frames, mode, rip,
                   rax, sys, switch_to, exiting, exited, sys_exited,
                   last_exit, irq, double_freed, created,
                   loader_vars, fs_vars, abi, iret, irq_vars>>

-----------------------------------------------------------------------------
(* Timer tick: timer_handler entry, then the scheduler entry *)

\* the modes that run with interrupts enabled
InterruptsEnabled == mode \in {"kernel", "user", "kproc", "syscall", "idle"}

\* instruction pointer in the trap frame the timer interrupt pushes
FrameRip ==
    CASE mode \in {"user", "kproc"} -> rip
      [] mode = "syscall" -> SyscallRip
      [] OTHER -> IdleRip

\* stack pointer and flags in that trap frame: the programs of the model
\* leave their stack pointer where it started, and a tick only arrives with
\* the interrupt flag set
FrameRsp ==
    IF mode = "user" /\ current_pid # NoPid
    THEN get_process(processes, current_pid).rsp ELSE KernelRsp

FrameRflags == InitialRflags

\* Some(&InterruptStackFrame) as the timer interrupt supplies it
SomeFrame == [present |-> TRUE, rip |-> FrameRip, rsp |-> FrameRsp,
              rflags |-> FrameRflags]

\* None: schedule() supplies no frame
NoFrame == [present |-> FALSE]

\* ProcessManager::save_current_process_state
save_current_process_state(procs, cur, interrupt_frame) ==
    IF cur = NoPid \/ Position(procs, cur) = 0 THEN procs
    ELSE IF interrupt_frame.present
    THEN [procs EXCEPT ![Position(procs, cur)].rip = interrupt_frame.rip,
                       ![Position(procs, cur)].rsp = interrupt_frame.rsp,
                       ![Position(procs, cur)].rflags = interrupt_frame.rflags,
                       ![Position(procs, cur)].gprs = 0,
                       ![Position(procs, cur)].has_saved_state = TRUE]
    ELSE procs

SetState(procs, pid, st) ==
    IF Position(procs, pid) = 0 THEN procs
    ELSE [procs EXCEPT ![Position(procs, pid)].state = st]

\* the table after schedule_with_frame has picked next_pid
Dispatched(procs, cur, nxt, interrupt_frame) ==
    SetState(SetState(save_current_process_state(procs, cur, interrupt_frame),
                      cur, "Ready"),
             nxt, "Running")

\* the guard is kept across the context switch
LockAfterDispatch_kept == "schedule"

\* drop(pm) before context_switch_to
LockAfterDispatch == "free"

\* the timer interrupt arrives where interrupts are enabled; schedule() is
\* called by kernel code
Entered(interrupt_frame) ==
    IF interrupt_frame.present THEN InterruptsEnabled ELSE InKernelCode

\* try_lock fails: loop {} inside the handler
schedule_lock_busy(interrupt_frame) ==
    /\ Entered(interrupt_frame)
    /\ lock # "free"
    /\ cr3' = IF interrupt_frame.present THEN EnsuredCr3 ELSE cr3
    /\ mode' = "hung"
    /\ UNCHANGED <<processes, current_pid, next_pid, lock, kernel_page_table,
                   free_frames, rip, rax, sys, switch_to, exiting, returned,
                   exited, sys_exited, last_exit, irq, double_freed, created,
                   loader_vars, fs_vars, cpu_vars>>

\* try_lock succeeds and get_next_ready_process returns Some(next_pid)
schedule_dispatch(interrupt_frame) ==
    /\ Entered(interrupt_frame)
    /\ lock = "free"
    /\ get_next_ready_process(processes, current_pid) # NoPid
    /\ LET nxt  == get_next_ready_process(processes, current_pid)
           tbl  == Dispatched(processes, current_pid, nxt, interrupt_frame)
       IN  /\ processes' = tbl
           /\ switch_to' = get_process(tbl, nxt)
           /\ current_pid' = nxt
    /\ lock' = LockAfterDispatch
    /\ cr3' = IF interrupt_frame.present THEN EnsuredCr3 ELSE cr3
    /\ mode' = "switch"
    /\ sys' = NoSys
    /\ last_exit' = NoPid
    /\ UNCHANGED <<next_pid, kernel_page_table, free_frames, rip, rax, exiting,
                   returned, exited, sys_exited, irq, double_freed, created,
                   loader_vars, fs_vars, cpu_vars>>

\* try_lock succeeds and get_next_ready_process returns None: loop {} with
\* the guard still alive
schedule_no_ready(interrupt_frame) ==
    /\ Entered(interrupt_frame)
    /\ lock = "free"
    /\ get_next_ready_process(processes, current_pid) = NoPid
    /\ cr3' = IF current_pid # NoPid THEN KernelFrame
              ELSE IF interrupt_frame.present THEN EnsuredCr3 ELSE cr3
    /\ current_pid' = NoPid
    /\ lock' = "schedule"
    /\ mode' = "hung"
    /\ UNCHANGED <<processes, next_pid, kernel_page_table, free_frames, rip,
                   rax, sys, switch_to, exiting, returned, exited, sys_exited,
                   last_exit, irq, double_freed, created,
                   loader_vars, fs_vars, cpu_vars>>

schedule_with_frame(interrupt_frame) ==
    \/ schedule_lock_busy(interrupt_frame)
    \/ schedule_dispatch(interrupt_frame)
    \/ schedule_no_ready(interrupt_frame)

\* the timer tick: ensure_kernel_page_table, then schedule_with_frame(Some)
timer_tick == schedule_with_frame(SomeFrame)

\* pub fn schedule() -> !
schedule == schedule_with_frame(NoFrame)

\* the first run is taken whatever the flag says
UsesFirstRun_always(process) == TRUE

\* if !process.has_saved_state
UsesFirstRun(process) == ~process.has_saved_state

\* perform_kernel_first_run / switch_to_user_mode_first_run: the iretq frame
\* is built from instruction_pointer, stack_pointer and the literal 0x202, and
\* every general-purpose register is cleared
first_run(process) ==
    [path |-> "first_run", pid |-> process.pid, rip |-> process.rip,
     rsp |-> process.rsp, rflags |-> 514, gprs |-> 0]

\* perform_kernel_resume / switch_to_user_mode_resume: the frame and the
\* registers are loaded from process.registers
resume(process) ==
    [path |-> "resume", pid |-> process.pid, rip |-> process.rip,
     rsp |-> process.rsp, rflags |-> process.rflags, gprs |-> process.gprs]

\* context_switch_to: iretq into the selected process
context_switch_to ==
    /\ mode = "switch"
    /\ switch_to' = NoProcess
    /\ iret' = IF UsesFirstRun(switch_to) THEN first_run(switch_to)
               ELSE resume(switch_to)
    /\ rip' = iret'.rip
    /\ rax' = iret'.gprs
    /\ IF switch_to.process_type = "Kernel"
       THEN \* perform_kernel_*: CR3 is read and written back
            /\ cr3' = cr3
            /\ mode' = "kproc"
       ELSE \* perform_context_switch, then iretq with the user selectors
            /\ cr3' = switch_to.page_table_frame
            /\ mode' = IF IsUserAddr(switch_to.rip) THEN "user" ELSE "fault"
    /\ UNCHANGED <<processes, current_pid, next_pid, lock, kernel_page_table,
                   free_frames, sys, exiting, returned, exited, sys_exited,
                   last_exit, irq, double_freed, created,
                   loader_vars, fs_vars, abi, born, irq_vars>>

-----------------------------------------------------------------------------
(* Keyboard interrupt (an interrupt gate: no interrupt nests inside it) *)

\* keyboard_interrupt_handler up to the scancode push
keyboard_entry ==
    /\ InterruptsEnabled
    /\ irq' = [active |-> TRUE, original_cr3 |-> OriginalCr3,
               entry_cr3 |-> cr3, from |-> mode]
    /\ cr3' = EnsuredCr3
    /\ mode' = "keyboard"
    /\ UNCHANGED <<processes, current_pid, next_pid, lock, kernel_page_table,
                   free_frames, rip, rax, sys, switch_to, exiting, returned,
                   exited, sys_exited, last_exit, double_freed, created,
                   loader_vars, fs_vars, cpu_vars>>

\* end of interrupt, CR3 restored if it was switched, iretq
keyboard_exit ==
    /\ mode = "keyboard"
    /\ cr3' = IF irq.original_cr3 # NoTable THEN irq.original_cr3 ELSE cr3
    /\ mode' = irq.from
    /\ irq' = NoIrq
    /\ UNCHANGED <<processes, current_pid, next_pid, lock, kernel_page_table,
                   free_frames, rip, rax, sys, switch_to, exiting, returned,
                   exited, sys_exited, last_exit, double_freed, created,
                   loader_vars, fs_vars, cpu_vars>>

keyboard_interrupt_handler ==
    \/ keyboard_entry
    \/ keyboard_exit

-----------------------------------------------------------------------------
(* int 0x80 *)

sys_write(fd, buf_ptr, count) == IF fd = 1 THEN count ELSE 0

\* the value handle_syscall returns (sys_exit returns 0 after marking)
handle_syscall(number, arg1, arg2, arg3) ==
    CASE number = 1 -> sys_write(arg1, arg2, arg3)
      [] number = 60 -> 0
      [] OTHER -> U64_MAX

\* what syscall_handler_rust_debug hands back to the assembly wrapper
RustReturn(number, result) == IF number = 60 THEN PROCESS_EXITED ELSE result

\* cmp rax, PROCESS_EXITED / je 2f
TakesExitPath(ret) == ret = PROCESS_EXITED

\* <<RAX, RDI, RSI, RDX>> a user program may issue
SyscallInputs ==
    ({1} \X {1, 2} \X {0, 16} \X {0, 17, U64_MAX})
    \cup ({60} \X {0, 42} \X {0} \X {0})
    \cup ({99} \X {0} \X {0} \X {0})

\* syscall_handler_asm entry up to interrupts::enable()
syscall_entry(regs) ==
    /\ mode = "user"
    /\ regs[1] = 60 \/ rip + 2 <= UserText + MaxRip
    /\ sys' = [active |-> TRUE, rax |-> regs[1], rdi |-> regs[2],
               rsi |-> regs[3], rdx |-> regs[4], rip |-> rip,
               original_cr3 |-> OriginalCr3, entry_cr3 |-> cr3,
               phase |-> "entered"]
    /\ cr3' = EnsuredCr3
    /\ mode' = "syscall"
    /\ UNCHANGED <<processes, current_pid, next_pid, lock, kernel_page_table,
                   free_frames, rip, rax, switch_to, exiting, returned, exited,
                   sys_exited, last_exit, irq, double_freed, created,
                   loader_vars, fs_vars, cpu_vars>>

\* kernel_idle_after_process_exit reloads the kernel table when it is known
IdleCr3(c) == IF kernel_page_table # NoTable THEN kernel_page_table ELSE c

\* a syscall other than 60: dispatch, restore CR3, and the wrapper's return
syscall_return ==
    /\ mode = "syscall"
    /\ sys.phase = "entered"
    /\ sys.rax # 60
    /\ LET result   == handle_syscall(sys.rax, sys.rdi, sys.rsi, sys.rdx)
           restored == IF sys.original_cr3 # NoTable
                       THEN sys.original_cr3 ELSE cr3
       IN  IF TakesExitPath(RustReturn(sys.rax, result))
           THEN /\ mode' = "idle"
                /\ cr3' = IdleCr3(restored)
                /\ UNCHANGED <<rip, rax>>
           ELSE /\ mode' = "user"
                /\ cr3' = restored
                /\ rax' = result
                /\ rip' = sys.rip + 2
    /\ sys' = NoSys
    /\ UNCHANGED <<processes, current_pid, next_pid, lock, kernel_page_table,
                   free_frames, switch_to, exiting, returned, exited,
                   sys_exited, last_exit, irq, double_freed, created,
                   loader_vars, fs_vars, cpu_vars>>

\* sys_exit: PROCESS_MANAGER.lock()
sys_exit_lock ==
    /\ mode = "syscall"
    /\ sys.phase = "entered"
    /\ sys.rax = 60
    /\ lock = "free"
    /\ lock' = "sys_exit"
    /\ sys' = [sys EXCEPT !.phase = "exit_locked"]
    /\ UNCHANGED <<processes, current_pid, next_pid, cr3, kernel_page_table,
                   free_frames, mode, rip, rax, switch_to, exiting, returned,
                   exited, sys_exited, last_exit, irq, double_freed, created,
                   loader_vars, fs_vars, cpu_vars>>

\* ProcessManager::mark_current_process_for_exit
mark_current_process_for_exit(procs, cur) == SetState(procs, cur, "Terminated")

\* sys_exit marks and unlocks; the wrapper jumps to the kernel idle loop
sys_exit ==
    /\ mode = "syscall"
    /\ sys.phase = "exit_locked"
    /\ processes' = mark_current_process_for_exit(processes, current_pid)
    /\ lock' = "free"
    /\ exited' = exited \cup {current_pid}
    /\ sys_exited' = sys_exited \cup {current_pid}
    /\ mode' = "idle"
    /\ cr3' = IdleCr3(cr3)
    /\ sys' = NoSys
    /\ UNCHANGED <<current_pid, next_pid, kernel_page_table, free_frames, rip,
                   rax, switch_to, exiting, returned, last_exit, irq, double_freed, created,
                   loader_vars, fs_vars, cpu_vars>>

-----------------------------------------------------------------------------
(* exit_current_process, run with interrupts disabled *)

\* the page table is left as it is
ExitCr3_unswitched == cr3

\* mov cr3, pm.kernel_cr3
ExitCr3 == KernelFrame

\* try_lock, switch to the kernel table, clone the current process
exit_switch_cr3 ==
    /\ mode \in {"user", "kproc"}
    /\ current_pid # NoPid
    /\ lock = "free"
    /\ lock' = "exit"
    /\ cr3' = ExitCr3
    /\ exiting' = get_process(processes, current_pid)
    /\ mode' = "exiting"
    /\ UNCHANGED <<processes, current_pid, next_pid, kernel_page_table,
                   free_frames, rip, rax, sys, switch_to, returned, exited,
                   sys_exited, last_exit, irq, double_freed, created,
                   loader_vars, fs_vars, cpu_vars>>

\* current_pid = 0, processes.remove(index), drop(pm)
exit_remove ==
    /\ mode = "exiting"
    /\ lock = "exit"
    /\ current_pid' = NoPid
    /\ processes' = RemoveAt(processes, Position(processes, exiting.pid))
    /\ lock' = "free"
    /\ UNCHANGED <<next_pid, cr3, kernel_page_table, free_frames, mode, rip,
                   rax, sys, switch_to, exiting, returned, exited, sys_exited,
                   last_exit, irq, double_freed, created,
                   loader_vars, fs_vars, cpu_vars>>

\* ProcessAddressSpace::cleanup: the frames go back to the allocator
cleanup(free, process) ==
    free \cup {process.page_table_frame} \cup process.user_frames

\* the user branch does no cleanup either
kill_process_no_cleanup(free, process) == free

\* the kernel branch cleans the address space up too
kill_process_cleanup_always(free, process) == cleanup(free, process)

\* the frames freed by kill_process
kill_process(free, process) ==
    IF process.process_type = "Kernel" THEN free ELSE cleanup(free, process)

exit_kill ==
    /\ mode = "exiting"
    /\ lock = "free"
    /\ free_frames' = kill_process(free_frames, exiting)
    /\ double_freed' = double_freed \cup
            (free_frames \cap (kill_process({}, exiting)))
    /\ exited' = exited \cup {exiting.pid}
    /\ last_exit' = exiting.pid
    /\ mode' = IF exiting.process_type = "Kernel" THEN "kernel" ELSE "idle"
    /\ exiting' = NoProcess
    /\ UNCHANGED <<processes, current_pid, next_pid, lock, cr3,
                   kernel_page_table, rip, rax, sys, switch_to, returned,
                   sys_exited, irq, created, loader_vars, fs_vars, cpu_vars>>

exit_current_process ==
    \/ exit_switch_cr3
    \/ exit_remove
    \/ exit_kill

-----------------------------------------------------------------------------

Next ==
    \/ set_kernel_page_table
    \/ queue_user_program_lock
    \/ \E binary \in Binaries : create_process(binary)
    \/ queue_kernel_process_lock
    \/ create_kernel_process
    \/ timer_tick
    \/ schedule
    \/ context_switch_to
    \/ \E regs \in SyscallInputs : syscall_entry(regs)
    \/ syscall_return
    \/ sys_exit_lock
    \/ sys_exit
    \/ exit_current_process
    \/ keyboard_interrupt_handler

Spec == Init /\ [][Next]_vars

-----------------------------------------------------------------------------
(* The loader on its own: create_process applied to one image on a fresh    *)
(* process manager with every frame free.                                   *)

\* sizes of the file-backed part and of the bss of a segment
SegSizes ==
    {0, 16} \cup {k * PageSize : k \in 1..MaxSegPages}
            \cup {k * PageSize + 16 : k \in 1..MaxSegPages}

\* where a segment starts: page-aligned, just inside a page, just before the
\* end of a page, one page further, three pages further
SegVaddrs ==
    {UserText, UserText + 16, UserText + PageSize - 8, UserText + PageSize,
     UserText + 3 * PageSize}

\* image lengths: shorter than some file ranges, and longer than all of them
ImageLens == {64 + PageSize, 128 + 2 * (MaxSegPages * PageSize + 16)}

OneSegmentImages ==
    {Image(UserText, len, <<Segment(vaddr, offset, filesz, filesz + bss,
                                    {"R", "X"})>>) :
        <<len, vaddr, offset, filesz, bss>> \in
            ImageLens \X SegVaddrs \X {0, 64} \X SegSizes \X SegSizes}

\* text and data in separate pages, with a note header between them
TwoSegmentImages ==
    {Image(UserText, 128 + PageSize,
           <<Segment(UserText, 0, filesz, filesz, {"R", "X"}),
             [p_type |-> "PT_NOTE", p_vaddr |-> 0, p_offset |-> 0,
              p_filesz |-> 32, p_memsz |-> 32, p_flags |-> {"R"}],
             Segment(UserText + 2 * PageSize + 16, 64, 16, 16 + bss,
                     {"R", "W"})>>) :
        <<filesz, bss>> \in {16, PageSize} \X {0, 8}}

Images == OneSegmentImages \cup TwoSegmentImages \cup Binaries

LoadInit ==
    /\ KernelInit
    /\ image \in Images
    /\ load = NotLoaded
    /\ FsIdle
    /\ CpuQuiet

\* create_process(image) on the fresh process manager
load_image ==
    /\ load = NotLoaded
    /\ load' = CreateProcess(image, next_pid, free_frames)
    /\ UNCHANGED <<image, kernel_vars, fs_vars, cpu_vars>>

LoadNext == load_image

LoadSpec == LoadInit /\ [][LoadNext]_vars

-----------------------------------------------------------------------------
(* The FAT32 driver (kernel/src/fs/fat32.rs) behind kernel/src/fs/manager.rs *)

\* attributes::*, cluster_values::*
VOLUME_ID == 8
DIRECTORY == 16
ARCHIVE == 32
LONG_NAME == 15
FREE == 0
END_OF_CHAIN == 268435455
MASK == 268435455
\* the smallest end-of-chain mark a formatter may write (0x0FFFFFF8)
EndOfChainMin == END_OF_CHAIN - 7
\* a reserved high bit of a FAT entry (bit 28), outside MASK
ReservedBit == MASK + 1
\* the boot signature (0xAA55) and the root directory's first cluster
BootSignature == 43605
RootCluster == 2
\* 0x20, the padding of an 8.3 name, and '.'
Space == 32
Dot == 46

Clusters == 2..MaxCluster

\* a u16 field of a packed struct, as an x86 read sees its two bytes
\* (the other byte order, for comparison)
u16_big_endian(b) == 256 * b[1] + b[2]

u16(b) == b[1] + 256 * b[2]

\* ---- what is on the disk ----

\* an 8.3 name: 8 bytes of base and 3 bytes of extension, padded with 0x20
Pad(s, n) == s \o [i \in 1..(n - Len(s)) |-> Space]

ShortName(base, ext) == Pad(base, 8) \o Pad(ext, 3)

DirectoryEntry(name, attrs, first_cluster, file_size) ==
    [name |-> name, attributes |-> attrs,
     first_cluster_high |-> first_cluster \div 65536,
     first_cluster_low |-> first_cluster % 65536,
     file_size |-> file_size]

\* 32 zero bytes
EndEntry == DirectoryEntry([i \in 1..11 |-> 0], 0, 0, 0)

\* A.TXT
FileA == DirectoryEntry(ShortName(<<65>>, <<84, 88, 84>>), ARCHIVE, 0, 0)
\* B.TXT
FileB == DirectoryEntry(ShortName(<<66>>, <<84, 88, 84>>), ARCHIVE, 0, 0)
\* a deleted B.TXT
DeletedB == [FileB EXCEPT !.name[1] = 229]
\* a long-name entry (sequence number 0x41)
LongC == DirectoryEntry(ShortName(<<65, 67>>, <<>>), LONG_NAME, 0, 0)
\* the volume label
LabelD == DirectoryEntry(ShortName(<<86, 79, 76>>, <<>>), VOLUME_ID, 0, 0)
\* the directory S
SubE == DirectoryEntry(ShortName(<<83>>, <<>>), DIRECTORY, 0, 0)
\* the start of the boot sector (jump and OEM name) read as an entry
BootEntry == DirectoryEntry(ShortName(<<235, 88, 144>>, <<>>), 0, 0, 0)

EntryKinds == {FileA, DeletedB, LongC, LabelD, SubE}

\* the boot sector: bytes 22..23 (sectors_per_fat_16), bytes 510..511
BootSector(spf16, sig) == [sectors_per_fat_16 |-> spf16, signature |-> sig]

GoodBoot == BootSector(<<0, 0>>, <<85, 170>>)

BootSectors ==
    {BootSector(spf16, sig) :
        spf16 \in {<<0, 0>>, <<9, 0>>, <<0, 1>>},
        sig \in {<<85, 170>>, <<170, 85>>, <<0, 0>>}}

\* what the disk driver does with a sector past the end of the volume: it
\* reports an error, or hands back zeroes, or hands back something else
BeyondDisk == {"error", "zeros", "junk"}

\* a volume whose root directory holds `slots` in the clusters 2, 3, ...;
\* the directory's last FAT entry is `eoc`, the others carry `high`
Volume(boot, slots, eoc, high, beyond) ==
    LET n == Len(slots) \div EntriesPerCluster
        last == RootCluster + n - 1
    IN [boot |-> boot,
        beyond |-> beyond,
        fat  |-> [c \in 0..MaxCluster |->
                     IF c = 0 THEN EndOfChainMin
                     ELSE IF c = 1 THEN END_OF_CHAIN
                     ELSE IF c < last THEN high + c + 1
                     ELSE IF c = last THEN eoc
                     ELSE FREE],
        dir  |-> [c \in Clusters |->
                     IF c <= last
                     THEN SubSeq(slots, (c - RootCluster) * EntriesPerCluster + 1,
                                 (c - RootCluster + 1) * EntriesPerCluster)
                     ELSE [i \in 1..EntriesPerCluster |-> EndEntry]],
        data |-> [c \in Clusters |-> [i \in 1..ClusterSize |-> 0]]]

\* entries up to a whole number of clusters, filled with 0x00 entries
PadEntries(es) ==
    es \o [i \in 1..((EntriesPerCluster - (Len(es) % EntriesPerCluster))
                        % EntriesPerCluster) |-> EndEntry]

\* up to MaxEntries entries, no kind twice
Listings ==
    {es \in UNION {[1..n -> EntryKinds] : n \in 0..MaxEntries} :
        \A i, j \in 1..Len(es) : es[i] = es[j] => i = j}

\* the directory ends with a 0x00 entry; or a stale live entry follows the
\* 0x00 entry; or the entries fill the directory's clusters to the last slot
DirectorySlots ==
    {PadEntries(Append(es, EndEntry)) : es \in Listings}
    \cup {PadEntries(es \o <<EndEntry, FileB>>) : es \in Listings}
    \cup {es \in Listings : Len(es) > 0 /\ Len(es) % EntriesPerCluster = 0}

FittingSlots ==
    {sl \in DirectorySlots : Len(sl) \div EntriesPerCluster <= MaxCluster - 2}

Volumes ==
    {Volume(GoodBoot, slots, END_OF_CHAIN, high, "error") :
        slots \in FittingSlots, high \in {0, ReservedBit}}
    \cup {Volume(GoodBoot, slots, EndOfChainMin, high, beyond) :
            slots \in FittingSlots, high \in {0, ReservedBit},
            beyond \in BeyondDisk}
    \cup {Volume(boot, PadEntries(<<FileA, EndEntry>>), END_OF_CHAIN, 0,
                  "error") :
            boot \in BootSectors}

\* ---- Fat32FileSystem ----

\* Result<_, &'static str>
Ok(v) == [ok |-> TRUE, err |-> "", value |-> v]
Err(e) == [ok |-> FALSE, err |-> e, value |-> <<>>]

\* Fat32FileSystem::new; the sector read itself succeeds
Fat32FileSystem_new(d) ==
    LET signature == u16(d.boot.signature)
        sectors_per_fat_16 == u16(d.boot.sectors_per_fat_16)
    IN IF signature # BootSignature
       THEN Err("Invalid boot sector signature")
       ELSE IF sectors_per_fat_16 # 0
       THEN Err("This is not a FAT32 filesystem (FAT16/12 detected)")
       ELSE Ok("mounted")

\* cluster_to_sector and read_cluster: clusters 0 and 1 read from sector 0,
\* a cluster past the end of the volume is up to the disk driver
read_cluster(d, cluster) ==
    IF cluster < 2
    THEN Ok([dir |-> [i \in 1..EntriesPerCluster |-> BootEntry],
             data |-> [i \in 1..ClusterSize |-> 235]])
    ELSE IF cluster \in Clusters
    THEN Ok([dir |-> d.dir[cluster], data |-> d.data[cluster]])
    ELSE IF d.beyond = "error" THEN Err("Disk read error")
    ELSE IF d.beyond = "zeros"
    THEN Ok([dir |-> [i \in 1..EntriesPerCluster |-> EndEntry],
             data |-> [i \in 1..ClusterSize |-> 0]])
    ELSE Ok([dir |-> [i \in 1..EntriesPerCluster |-> BootEntry],
             data |-> [i \in 1..ClusterSize |-> 235]])

\* the FAT entry of a cluster, masked; past the end of the FAT the sector
\* read is up to the disk driver
get_next_cluster(d, cluster) ==
    IF cluster \in DOMAIN d.fat THEN Ok(And(d.fat[cluster], MASK))
    ELSE IF d.beyond = "error" THEN Err("Disk read error")
    ELSE IF d.beyond = "zeros" THEN Ok(FREE)
    ELSE Ok(END_OF_CHAIN)

\* the chain walk gives up after this many clusters: the code would not return
WalkFuel == MaxCluster + 2

\* the for loop of read_directory_entries over one cluster
RECURSIVE ScanEntries(_, _, _)
ScanEntries(es, i, entries) ==
    IF i > Len(es) THEN [ended |-> FALSE, entries |-> entries]
    ELSE IF es[i].name[1] = 0 THEN [ended |-> TRUE, entries |-> entries]
    ELSE IF es[i].name[1] = 229 \/ es[i].attributes = LONG_NAME
    THEN ScanEntries(es, i + 1, entries)
    ELSE ScanEntries(es, i + 1, Append(entries, es[i]))

RECURSIVE ReadDirectoryLoop(_, _, _, _)
ReadDirectoryLoop(d, current_cluster, entries, fuel) ==
    IF fuel = 0 THEN Err("does not return")
    ELSE
    LET r == read_cluster(d, current_cluster) IN
    IF ~r.ok THEN r
    ELSE
    LET scan == ScanEntries(r.value.dir, 1, entries) IN
    IF scan.ended THEN Ok(scan.entries)
    ELSE
    LET next_cluster == get_next_cluster(d, current_cluster) IN
    IF ~next_cluster.ok THEN next_cluster
    ELSE IF next_cluster.value >= END_OF_CHAIN THEN Ok(scan.entries)
    ELSE ReadDirectoryLoop(d, next_cluster.value, scan.entries, fuel - 1)

read_directory_entries(d, cluster) ==
    ReadDirectoryLoop(d, cluster, <<>>, WalkFuel)

\* the bytes of s before its first 0x20
UntilSpace(s) ==
    LET spaces == {i \in 1..Len(s) : s[i] = Space}
    IN IF spaces = {} THEN s
       ELSE SubSeq(s, 1, (CHOOSE i \in spaces : \A j \in spaces : i <= j) - 1)

entry_to_file_entry(entry) ==
    [name |-> UntilSpace(SubSeq(entry.name, 1, 8))
              \o (IF entry.name[9] # Space
                  THEN <<Dot>> \o UntilSpace(SubSeq(entry.name, 9, 11))
                  ELSE <<>>),
     is_directory |-> And(entry.attributes, DIRECTORY) # 0,
     size |-> entry.file_size,
     first_cluster |-> entry.first_cluster_high * 65536
                       + entry.first_cluster_low]

NotVolumeId(entry) == And(entry.attributes, VOLUME_ID) = 0

FileEntries(entries) ==
    LET kept == SelectSeq(entries, NotVolumeId)
    IN [i \in 1..Len(kept) |-> entry_to_file_entry(kept[i])]

list_directory(d, dir_cluster) ==
    LET r == read_directory_entries(d, dir_cluster)
    IN IF r.ok THEN Ok(FileEntries(r.value)) ELSE r

\* str::to_uppercase on ASCII
to_uppercase(name) ==
    [i \in 1..Len(name) |->
        IF name[i] >= 97 /\ name[i] <= 122 THEN name[i] - 32 ELSE name[i]]

\* Ok(<<file>>) is Ok(Some(file)), Ok(<<>>) is Ok(None)
find_file_in_directory(d, dir_cluster, filename) ==
    LET r == list_directory(d, dir_cluster)
        hits == IF r.ok
                THEN SelectSeq(r.value,
                               LAMBDA file : to_uppercase(file.name)
                                             = to_uppercase(filename))
                ELSE <<>>
    IN IF ~r.ok THEN r
       ELSE IF hits = <<>> THEN Ok(<<>>)
       ELSE Ok(<<hits[1]>>)

\* read_file copies whole clusters
bytes_to_read_whole_cluster(file_size, bytes_read) == ClusterSize

bytes_to_read(file_size, bytes_read) == Min(ClusterSize, file_size - bytes_read)

RECURSIVE ReadFileLoop(_, _, _, _, _)
ReadFileLoop(d, current_cluster, file_size, file_data, fuel) ==
    IF ~(Len(file_data) < file_size) THEN Ok(file_data)
    ELSE IF fuel = 0 THEN Err("does not return")
    ELSE
    LET r == read_cluster(d, current_cluster) IN
    IF ~r.ok THEN r
    ELSE
    LET more == file_data
                \o SubSeq(r.value.data, 1,
                          bytes_to_read(file_size, Len(file_data)))
    IN
    IF Len(more) >= file_size THEN Ok(more)
    ELSE
    LET next_cluster == get_next_cluster(d, current_cluster) IN
    IF ~next_cluster.ok THEN next_cluster
    ELSE IF next_cluster.value >= END_OF_CHAIN THEN Ok(more)
    ELSE ReadFileLoop(d, next_cluster.value, file_size, more, fuel - 1)

read_file(d, first_cluster, file_size) ==
    ReadFileLoop(d, first_cluster, file_size, <<>>, WalkFuel)

\* ---- create_file, as section 4.7 describes it ----

FreeClusters(d) == {c \in Clusters : And(d.fat[c], MASK) = FREE}

\* the n lowest clusters of a set, in order
RECURSIVE LowestClusters(_, _)
LowestClusters(cs, n) ==
    IF n = 0 \/ cs = {} THEN <<>>
    ELSE LET c == CHOOSE x \in cs : \A y \in cs : x <= y
         IN <<c>> \o LowestClusters(cs \ {c}, n - 1)

\* the clusters of the chain from c, up to its end-of-chain mark
RECURSIVE ChainOf(_, _, _)
ChainOf(d, c, fuel) ==
    IF fuel = 0 \/ c \notin Clusters THEN <<>>
    ELSE <<c>> \o ChainOf(d, And(d.fat[c], MASK), fuel - 1)

\* the slots <<cluster, index>> of a directory, in order
DirectorySlotsOf(d, dir_cluster) ==
    LET chain == ChainOf(d, dir_cluster, WalkFuel)
    IN [k \in 1..(Len(chain) * EntriesPerCluster) |->
          <<chain[((k - 1) \div EntriesPerCluster) + 1],
            ((k - 1) % EntriesPerCluster) + 1>>]

ClustersNeeded(data) == (Len(data) + ClusterSize - 1) \div ClusterSize

\* bytes of data that go into the k-th cluster of the chain, zero-filled
DataBlock(data, k) ==
    [i \in 1..ClusterSize |->
        IF (k - 1) * ClusterSize + i <= Len(data)
        THEN data[(k - 1) * ClusterSize + i] ELSE 0]

\* the 8.3 form of a file name: split at the dot, padded
ShortNameOf(filename) ==
    LET dots == {i \in 1..Len(filename) : filename[i] = Dot}
        dot == IF dots = {} THEN Len(filename) + 1
               ELSE CHOOSE i \in dots : \A j \in dots : i <= j
    IN ShortName(to_uppercase(SubSeq(filename, 1, dot - 1)),
                 to_uppercase(SubSeq(filename, dot + 1, Len(filename))))

create_file(d, dir_cluster, filename, data) ==
    LET name == ShortNameOf(filename)
        chain == LowestClusters(FreeClusters(d), ClustersNeeded(data))
        slots == DirectorySlotsOf(d, dir_cluster)
        usable == {k \in 1..Len(slots) :
                     d.dir[slots[k][1]][slots[k][2]].name[1] \in {0, 229}}
    IN IF Len(chain) < ClustersNeeded(data) THEN Err("No free clusters")
       ELSE IF usable = {} THEN Err("Directory full")
       ELSE
       LET k == CHOOSE x \in usable : \A y \in usable : x <= y
           first_cluster == IF chain = <<>> THEN 0 ELSE chain[1]
           entry == DirectoryEntry(name, ARCHIVE, first_cluster, Len(data))
           position(c) == CHOOSE i \in 1..Len(chain) : chain[i] = c
           in_chain(c) == \E i \in 1..Len(chain) : chain[i] = c
       IN Ok([first_cluster |-> first_cluster,
              disk |->
                [d EXCEPT
                   !.fat = [c \in 0..MaxCluster |->
                              IF ~in_chain(c) THEN d.fat[c]
                              ELSE IF position(c) = Len(chain)
                              THEN END_OF_CHAIN
                              ELSE chain[position(c) + 1]],
                   !.data = [c \in Clusters |->
                              IF in_chain(c) THEN DataBlock(data, position(c))
                              ELSE d.data[c]],
                   !.dir = [c \in Clusters |->
                              IF c = slots[k][1]
                              THEN [d.dir[c] EXCEPT ![slots[k][2]] = entry]
                              ELSE d.dir[c]]]])

\* ---- the calls of kernel/src/fs/manager.rs ----

\* file contents: n bytes, all different and none zero
Contents(n) == [i \in 1..n |-> 100 + i]

\* "new.txt"
NewName == <<110, 101, 119, 46, 116, 120, 116>>

\* the lengths of the byte strings written and read: nothing, one byte, a
\* whole cluster, a cluster and a byte, two clusters
DataLengths == {0, 1, ClusterSize, ClusterSize + 1, 2 * ClusterSize}

\* init_filesystem with one drive attached
init_filesystem ==
    /\ disk # NoDisk
    /\ fs = "none"
    /\ \E r \in {Fat32FileSystem_new(disk)} :
          /\ fs' = IF r.ok THEN "mounted" ELSE r.err
          /\ fs_op' = [op |-> "new", result |-> r]
    /\ UNCHANGED <<disk, last_created, last_deleted, fs_cpu, kernel_vars,
                   loader_vars, cpu_vars>>

\* list_directory_files(root cluster)
list_directory_files ==
    /\ fs = "mounted"
    /\ fs_cpu.call = NoCall
    /\ fs_op' = [op |-> "list_directory",
                 result |-> list_directory(disk, RootCluster)]
    /\ UNCHANGED <<disk, fs, last_created, last_deleted, fs_cpu, kernel_vars,
                   loader_vars, cpu_vars>>

\* create_file_in_root("new.txt", data), for a file that is not there yet
create_file_in_root(data) ==
    /\ fs = "mounted"
    /\ find_file_in_directory(disk, RootCluster, NewName) = Ok(<<>>)
    /\ \E r \in {create_file(disk, RootCluster, NewName, data)} :
          /\ disk' = IF r.ok THEN r.value.disk ELSE disk
          /\ last_created' =
                IF r.ok THEN [name |-> NewName, data |-> data,
                              first_cluster |-> r.value.first_cluster]
                ELSE last_created
          /\ fs_op' = [op |-> "create_file",
                       result |-> IF r.ok THEN Ok(<<>>) ELSE r]
    /\ UNCHANGED <<fs, last_deleted, fs_cpu, kernel_vars, loader_vars, cpu_vars>>

\* manager::read_file on the file created last
read_created_file(file_size) ==
    /\ fs = "mounted"
    /\ fs_cpu.call = NoCall
    /\ last_created # NoFile
    /\ fs_op' = [op |-> "read_file",
                 first_cluster |-> last_created.first_cluster,
                 file_size |-> file_size,
                 result |-> read_file(disk, last_created.first_cluster,
                                      file_size)]
    /\ UNCHANGED <<disk, fs, last_created, last_deleted, fs_cpu, kernel_vars,
                   loader_vars, cpu_vars>>

FatInit ==
    /\ KernelInit
    /\ image = NoImage
    /\ load = NotLoaded
    /\ disk \in Volumes
    /\ fs = "none"
    /\ fs_op = NoOp
    /\ last_created = NoFile
    /\ last_deleted = NoDeleted
    /\ fs_cpu = CpuIdle(TRUE)
    /\ CpuQuiet

FatNext ==
    \/ init_filesystem
    \/ list_directory_files
    \/ \E n \in DataLengths : create_file_in_root(Contents(n))
    \/ \E n \in DataLengths : read_created_file(n)

FatSpec == FatInit /\ [][FatNext]_vars

-----------------------------------------------------------------------------
(* The chain walks on their own: read_file and list_directory_files applied  *)
(* once to a mounted volume that holds one cluster chain.                    *)

BAD == 268435447

\* sequences of different clusters above the root directory's
ChainsOnDisk ==
    {ch \in UNION {[1..n -> (RootCluster + 1)..MaxCluster] :
                       n \in 1..(MaxCluster - RootCluster)} :
        \A i, j \in 1..Len(ch) : ch[i] = ch[j] => i = j}

\* what the FAT entry of a chain's last cluster may hold: an end-of-chain
\* mark, the chain's first cluster again, a free or a bad entry
LastEntries(chain) == {END_OF_CHAIN, EndOfChainMin, chain[1], FREE, BAD}

\* a volume with the root directory in cluster 2 and one chain whose
\* clusters hold, read as data, bytes that tell the clusters apart and,
\* read as a directory, entries none of which starts with 0x00
ChainVolume(chain, last, high, beyond) ==
    LET base == Volume(GoodBoot, PadEntries(<<SubE, EndEntry>>),
                       END_OF_CHAIN, 0, beyond)
        position(c) == CHOOSE i \in 1..Len(chain) : chain[i] = c
        in_chain(c) == \E i \in 1..Len(chain) : chain[i] = c
    IN [base EXCEPT
          !.fat = [c \in 0..MaxCluster |->
                     IF ~in_chain(c) THEN base.fat[c]
                     ELSE IF position(c) = Len(chain) THEN high + last
                     ELSE high + chain[position(c) + 1]],
          !.data = [c \in Clusters |->
                     [i \in 1..ClusterSize |-> 10 * c + i]],
          !.dir = [c \in Clusters |->
                     IF in_chain(c)
                     THEN [i \in 1..EntriesPerCluster |->
                             IF i = 1 THEN FileA ELSE LabelD]
                     ELSE base.dir[c]]]

ChainVolumes ==
    {ChainVolume(chain, last, high, beyond) :
        <<chain, high, beyond>> \in
            ChainsOnDisk \X {0, ReservedBit} \X BeyondDisk,
        last \in {END_OF_CHAIN, EndOfChainMin, FREE, BAD}}
    \cup {ChainVolume(chain, chain[1], high, "error") :
            chain \in ChainsOnDisk, high \in {0, ReservedBit}}

\* manager::read_file(first_cluster, file_size) on any cluster of the volume
\* and on the first cluster past its end
read_chain(first_cluster, file_size) ==
    /\ fs = "mounted"
    /\ fs_op = NoOp
    /\ fs_op' = [op |-> "read_chain",
                 first_cluster |-> first_cluster,
                 file_size |-> file_size,
                 result |-> read_file(disk, first_cluster, file_size)]
    /\ UNCHANGED <<disk, fs, last_created, last_deleted, fs_cpu, kernel_vars,
                   loader_vars, cpu_vars>>

\* manager::list_directory_files(cluster) on any cluster of the volume
list_chain(cluster) ==
    /\ fs = "mounted"
    /\ fs_op = NoOp
    /\ fs_op' = [op |-> "list_chain",
                 first_cluster |-> cluster,
                 result |-> list_directory(disk, cluster)]
    /\ UNCHANGED <<disk, fs, last_created, last_deleted, fs_cpu, kernel_vars,
                   loader_vars, cpu_vars>>

WalkInit ==
    /\ KernelInit
    /\ image = NoImage
    /\ load = NotLoaded
    /\ disk \in ChainVolumes
    /\ fs = "mounted"
    /\ fs_op = NoOp
    /\ last_created = NoFile
    /\ last_deleted = NoDeleted
    /\ fs_cpu = CpuIdle(TRUE)
    /\ CpuQuiet

WalkNext ==
    \/ \E c \in Clusters \cup {MaxCluster + 1}, n \in DataLengths :
          read_chain(c, n)
    \/ \E c \in Clusters : list_chain(c)

WalkSpec == WalkInit /\ [][WalkNext]_vars

-----------------------------------------------------------------------------
(* The mutating calls of kernel/src/fs/manager.rs, step by step: each runs   *)
(* its body inside x86_64::instructions::interrupts::without_interrupts.    *)

\* mutating calls are made while fewer than this many have been made
MaxCalls == 3

\* without_interrupts leaves the interrupt flag as it finds it
InterruptsInCall_left_enabled(enabled) == enabled

\* without_interrupts: the flag while the closure runs (cli)
InterruptsInCall(enabled) == FALSE

Max(a, b) == IF a > b THEN a ELSE b

\* ---- delete_file and write_file, as section 4.7 describes them ----

\* the directory slot of the live entry that lists as `filename`
SlotOf(d, dir_cluster, filename) ==
    LET slots == DirectorySlotsOf(d, dir_cluster)
        entry(k) == d.dir[slots[k][1]][slots[k][2]]
        live == {k \in 1..Len(slots) :
                   /\ \A j \in 1..k : entry(j).name[1] # 0
                   /\ entry(k).name[1] # 229
                   /\ entry(k).attributes # LONG_NAME
                   /\ NotVolumeId(entry(k))
                   /\ to_uppercase(entry_to_file_entry(entry(k)).name)
                      = to_uppercase(filename)}
    IN IF live = {} THEN <<>>
       ELSE slots[CHOOSE k \in live : \A j \in live : k <= j]

\* a delete that marks the entry and leaves the FAT alone
delete_file_keeps_chain(d, dir_cluster, filename) ==
    LET found == find_file_in_directory(d, dir_cluster, filename)
        slot == SlotOf(d, dir_cluster, filename)
    IN IF ~found.ok THEN found
       ELSE IF found.value = <<>> \/ slot = <<>> THEN Err("File not found")
       ELSE
       LET chain == ChainOf(d, found.value[1].first_cluster, WalkFuel)
       IN Ok([chain |-> {chain[i] : i \in 1..Len(chain)},
              disk |-> [d EXCEPT !.dir[slot[1]][slot[2]].name[1] = 229]])

\* the entry is looked up with the driver's find_file_in_directory
delete_file(d, dir_cluster, filename) ==
    LET found == find_file_in_directory(d, dir_cluster, filename)
        slot == SlotOf(d, dir_cluster, filename)
    IN IF ~found.ok THEN found
       ELSE IF found.value = <<>> \/ slot = <<>> THEN Err("File not found")
       ELSE
       LET chain == ChainOf(d, found.value[1].first_cluster, WalkFuel)
           freed == {chain[i] : i \in 1..Len(chain)}
       IN Ok([chain |-> freed,
              disk |->
                [d EXCEPT
                   !.fat = [c \in 0..MaxCluster |->
                              IF c \in freed THEN FREE ELSE d.fat[c]],
                   !.dir[slot[1]][slot[2]].name[1] = 229]])

\* overwrite the chain from first_cluster, extended from the free clusters or
\* cut short as the data needs; a file keeps its first cluster
write_file(d, first_cluster, data) ==
    LET chain == ChainOf(d, first_cluster, WalkFuel)
        needed == Max(ClustersNeeded(data), 1)
        extra == LowestClusters(FreeClusters(d), needed - Len(chain))
        whole == IF needed <= Len(chain) THEN SubSeq(chain, 1, needed)
                 ELSE chain \o extra
        position(c) == CHOOSE i \in 1..Len(whole) : whole[i] = c
        kept(c) == \E i \in 1..Len(whole) : whole[i] = c
        dropped(c) == \E i \in 1..Len(chain) : chain[i] = c
    IN IF first_cluster \notin Clusters THEN Err("Invalid cluster")
       ELSE IF Len(whole) < needed THEN Err("No free clusters")
       ELSE Ok([disk |->
                [d EXCEPT
                   !.fat = [c \in 0..MaxCluster |->
                              IF kept(c)
                              THEN IF position(c) = Len(whole)
                                   THEN END_OF_CHAIN
                                   ELSE whole[position(c) + 1]
                              ELSE IF dropped(c) THEN FREE
                              ELSE d.fat[c]],
                   !.data = [c \in Clusters |->
                              IF kept(c) THEN DataBlock(data, position(c))
                              ELSE d.data[c]]]])

\* ---- the calls ----

\* "a.txt"
OldName == <<97, 46, 116, 120, 116>>

CreateCall(data) == [op |-> "create_file", filename |-> NewName, data |-> data]
DeleteCall(filename) == [op |-> "delete_file", filename |-> filename, data |-> <<>>]
WriteCall(data) == [op |-> "write_file", filename |-> <<>>, data |-> data]

\* create_file_in_root of a file that is not there yet, delete_file_from_root,
\* write_file_data on the file created last
MutatingCalls ==
    {CreateCall(Contents(n)) : n \in DataLengths}
    \cup {DeleteCall(NewName), DeleteCall(OldName)}
    \cup {WriteCall(Contents(n)) : n \in {1, 2 * ClusterSize}}

CanCall(call) ==
    CASE call.op = "create_file" ->
            find_file_in_directory(disk, RootCluster, call.filename) = Ok(<<>>)
      [] call.op = "write_file" -> last_created # NoFile
      [] OTHER -> TRUE

\* the code around the call runs with interrupts on, or with interrupts off
set_interrupts(enabled) ==
    /\ fs_cpu.call = NoCall
    /\ fs_cpu.caller # enabled
    /\ fs_cpu' = [fs_cpu EXCEPT !.interrupts = enabled, !.caller = enabled]
    /\ UNCHANGED <<disk, fs, fs_op, last_created, last_deleted, kernel_vars,
                   loader_vars, cpu_vars>>

\* without_interrupts saves the flag and clears it; the closure takes the lock
call_begin(call) ==
    /\ fs = "mounted"
    /\ fs_cpu.call = NoCall
    /\ ~fs_cpu.lock
    /\ fs_cpu.calls < MaxCalls
    /\ CanCall(call)
    /\ fs_cpu' = [fs_cpu EXCEPT !.was_enabled = fs_cpu.interrupts,
                                !.interrupts = InterruptsInCall(fs_cpu.interrupts),
                                !.lock = TRUE,
                                !.call = call,
                                !.preempted = FALSE,
                                !.calls = fs_cpu.calls + 1]
    /\ UNCHANGED <<disk, fs, fs_op, last_created, last_deleted, kernel_vars,
                   loader_vars, cpu_vars>>

\* what the call in progress makes of the volume
CallResult(call) ==
    CASE call.op = "create_file" ->
            create_file(disk, RootCluster, call.filename, call.data)
      [] call.op = "delete_file" ->
            delete_file(disk, RootCluster, call.filename)
      [] OTHER ->
            write_file(disk, last_created.first_cluster, call.data)

\* the driver's work is done, the guard is dropped at the end of the closure,
\* without_interrupts sets the flag again if it was set
call_end ==
    /\ fs_cpu.call # NoCall
    /\ \E r \in {CallResult(fs_cpu.call)} :
          /\ disk' = IF r.ok THEN r.value.disk ELSE disk
          /\ fs_op' = [op |-> fs_cpu.call.op, filename |-> fs_cpu.call.filename,
                       result |-> IF r.ok THEN Ok(<<>>) ELSE r]
          /\ last_created' =
                IF ~r.ok THEN last_created
                ELSE IF fs_cpu.call.op = "create_file"
                THEN [name |-> fs_cpu.call.filename, data |-> fs_cpu.call.data,
                      first_cluster |-> r.value.first_cluster]
                ELSE IF fs_cpu.call.op = "write_file"
                THEN [last_created EXCEPT !.data = fs_cpu.call.data]
                ELSE IF to_uppercase(fs_cpu.call.filename)
                        = to_uppercase(last_created.name)
                THEN NoFile
                ELSE last_created
          /\ last_deleted' =
                IF r.ok /\ fs_cpu.call.op = "delete_file"
                THEN [name |-> fs_cpu.call.filename, chain |-> r.value.chain]
                ELSE last_deleted
    /\ fs_cpu' = [fs_cpu EXCEPT !.interrupts = IF fs_cpu.was_enabled THEN TRUE
                                               ELSE fs_cpu.interrupts,
                                !.lock = FALSE,
                                !.call = NoCall]
    /\ UNCHANGED <<fs, kernel_vars, loader_vars, cpu_vars>>

\* a timer or keyboard interrupt is taken: its handler runs to completion
fs_interrupt ==
    /\ fs_cpu.interrupts
    /\ fs_cpu' = [fs_cpu EXCEPT !.preempted = (fs_cpu.call # NoCall)]
    /\ UNCHANGED <<disk, fs, fs_op, last_created, last_deleted, kernel_vars,
                   loader_vars, cpu_vars>>

\* manager::find_file_in_root
find_file_in_root(filename) ==
    /\ fs = "mounted"
    /\ fs_cpu.call = NoCall
    /\ fs_op' = [op |-> "find_file", filename |-> filename,
                 result |-> find_file_in_directory(disk, RootCluster, filename)]
    /\ UNCHANGED <<disk, fs, last_created, last_deleted, fs_cpu, kernel_vars,
                   loader_vars, cpu_vars>>

\* the volumes the calls are made on: an empty root directory, one with A.TXT,
\* one that A.TXT and the volume label fill to the last slot
CallVolumes ==
    {Volume(GoodBoot, slots, eoc, 0, beyond) :
        slots \in {PadEntries(<<EndEntry>>), PadEntries(<<FileA, EndEntry>>),
                   PadEntries(<<LabelD, FileA>>) \o PadEntries(<<EndEntry>>)},
        eoc \in {END_OF_CHAIN, EndOfChainMin},
        beyond \in {"error", "junk"}}
    \cup {Volume(GoodBoot, [i \in 1..EntriesPerCluster |->
                              IF i = 1 THEN FileA ELSE LabelD],
                 eoc, 0, beyond) :
            eoc \in {END_OF_CHAIN, EndOfChainMin},
            beyond \in BeyondDisk}

CallInit ==
    /\ KernelInit
    /\ image = NoImage
    /\ load = NotLoaded
    /\ disk \in CallVolumes
    /\ fs = "none"
    /\ fs_op = NoOp
    /\ last_created = NoFile
    /\ last_deleted = NoDeleted
    /\ fs_cpu \in {CpuIdle(TRUE), CpuIdle(FALSE)}
    /\ CpuQuiet

CallNext ==
    \/ init_filesystem
    \/ \E enabled \in BOOLEAN : set_interrupts(enabled)
    \/ \E call \in MutatingCalls : call_begin(call)
    \/ call_end
    \/ fs_interrupt
    \/ \E filename \in {NewName, OldName} : find_file_in_root(filename)
    \/ \E n \in DataLengths : read_created_file(n)

CallSpec == CallInit /\ [][CallNext]_vars

-----------------------------------------------------------------------------
(* The int 0x80 wrapper syscall_handler_asm (kernel/src/interrupts.rs),      *)
(* register by register: one system call from user mode to its iretq.       *)

\* byte offsets above RSP, after the seven pushes, that the wrapper loads the
\* Rust function's arguments from: the saved RSI and RDI are exchanged
ArgSlots_exchanged == [number |-> 48, arg1 |-> 16, arg2 |-> 8, arg3 |-> 24]

\* mov rdi, [rsp + 48] / mov rsi, [rsp + 8] / mov rdx, [rsp + 16] /
\* mov rcx, [rsp + 24]
ArgSlots == [number |-> 48, arg1 |-> 8, arg2 |-> 16, arg3 |-> 24]

\* mov [rsp + 48], rax
ResultSlot == 48

\* the kernel stack, top first, in 8-byte words
Push(stack, word) == <<word>> \o stack
Pop(stack, words) == SubSeq(stack, words + 1, Len(stack))
Slot(stack, offset) == stack[(offset \div 8) + 1]
Store(stack, offset, word) == [stack EXCEPT ![(offset \div 8) + 1] = word]

\* the frame the CPU pushes for int 0x80 from ring 3: SS, RSP, RFLAGS, CS, RIP
TrapFrame(user_rip, user_rsp) == <<user_rip, 3, InitialRflags, user_rsp, 3>>

\* push rax, rbx, rcx, rdx, rsi, rdi, rbp
PushRegisters(stack, regs) ==
    Push(Push(Push(Push(Push(Push(Push(stack, regs.rax), regs.rbx), regs.rcx),
                        regs.rdx), regs.rsi), regs.rdi), regs.rbp)

\* pop rbp, rdi, rsi, rdx, rcx, rbx, rax
PopRegisters(stack, regs) ==
    [regs EXCEPT !.rbp = stack[1], !.rdi = stack[2], !.rsi = stack[3],
                 !.rdx = stack[4], !.rcx = stack[5], !.rbx = stack[6],
                 !.rax = stack[7]]

\* the register file of the user program at its int 0x80
UserRegisters ==
    {[rax |-> in[1], rdi |-> in[2], rsi |-> in[3], rdx |-> in[4],
      rbx |-> b, rcx |-> c, rbp |-> p, r11 |-> 11] :
        in \in SyscallInputs, b \in {5, 6}, c \in {7, 8}, p \in {9, 10}}

\* what the Rust function leaves in the registers the C calling convention
\* lets it overwrite
Scratch == {0, 77}

\* the CPU takes the trap: the frame goes on the kernel stack
int_0x80 ==
    /\ abi.phase = "user"
    /\ abi' = [abi EXCEPT !.phase = "trapped",
                          !.stack = TrapFrame(abi.rip, abi.rsp) \o abi.stack]
    /\ UNCHANGED <<kernel_vars, loader_vars, fs_vars, iret, born, irq_vars>>

\* syscall_handler_asm up to "call syscall_handler_rust_debug"
syscall_handler_asm_entry ==
    /\ abi.phase = "trapped"
    /\ LET saved == PushRegisters(abi.stack, abi.regs)
       IN  abi' = [abi EXCEPT
                !.phase = "dispatch",
                !.stack = saved,
                !.regs = [abi.regs EXCEPT
                            !.rdi = Slot(saved, ArgSlots.number),
                            !.rsi = Slot(saved, ArgSlots.arg1),
                            !.rdx = Slot(saved, ArgSlots.arg2),
                            !.rcx = Slot(saved, ArgSlots.arg3)]]
    /\ UNCHANGED <<kernel_vars, loader_vars, fs_vars, iret, born, irq_vars>>

\* syscall_handler_rust_debug(rax, rdi, rsi, rdx), an extern "C" function: its
\* parameters arrive in RDI, RSI, RDX, RCX, its value leaves in RAX, and it
\* preserves RBX and RBP
syscall_handler_rust_debug(scratch) ==
    /\ abi.phase = "dispatch"
    /\ LET number == abi.regs.rdi
           arg1   == abi.regs.rsi
           arg2   == abi.regs.rdx
           arg3   == abi.regs.rcx
           result == handle_syscall(number, arg1, arg2, arg3)
       IN  abi' = [abi EXCEPT
                !.phase = "called",
                !.call = <<number, arg1, arg2, arg3>>,
                !.result = result,
                !.regs = [abi.regs EXCEPT
                            !.rax = RustReturn(number, result),
                            !.rcx = scratch, !.rdx = scratch,
                            !.rsi = scratch, !.rdi = scratch,
                            !.r11 = scratch]]
    /\ UNCHANGED <<kernel_vars, loader_vars, fs_vars, iret, born, irq_vars>>

\* cmp rax, PROCESS_EXITED / je 2f, then either the normal return path up to
\* iretq or the exit path up to the jump to kernel_idle_after_process_exit
syscall_handler_asm_exit ==
    /\ abi.phase = "called"
    /\ IF TakesExitPath(abi.regs.rax)
       THEN abi' = [abi EXCEPT !.phase = "exited",
                               !.stack = Pop(Pop(abi.stack, 7), 5)]
       ELSE LET stored   == Store(abi.stack, ResultSlot, abi.regs.rax)
                restored == PopRegisters(stored, abi.regs)
                frame    == Pop(stored, 7)
                r11      == frame[1] + 2
            IN  abi' = [abi EXCEPT
                    !.phase = "returned",
                    !.regs = [restored EXCEPT !.r11 = r11],
                    !.rip = r11,
                    !.rsp = frame[4],
                    !.stack = Pop(frame, 5)]
    /\ UNCHANGED <<kernel_vars, loader_vars, fs_vars, iret, born, irq_vars>>

AbiInit ==
    /\ KernelInit
    /\ image = NoImage
    /\ load = NotLoaded
    /\ FsIdle
    /\ iret = NoIret
    /\ born = {}
    /\ IrqQuiet
    /\ \E regs \in UserRegisters, user_rip \in {UserText, UserText + 1} :
            abi = [phase |-> "user", regs |-> regs, rip |-> user_rip,
                   rsp |-> InitialStackPointer, stack |-> <<>>,
                   at_int |-> [regs |-> regs, rip |-> user_rip],
                   call |-> <<>>, result |-> 0]

AbiNext ==
    \/ int_0x80
    \/ syscall_handler_asm_entry
    \/ \E scratch \in Scratch : syscall_handler_rust_debug(scratch)
    \/ syscall_handler_asm_exit

AbiSpec == AbiInit /\ [][AbiNext]_vars

-----------------------------------------------------------------------------
(* The timer and keyboard interrupt handlers of kernel/src/interrupts.rs     *)
(* behind the interrupt controller, and the scancode queue of                *)
(* kernel/src/task/keyboard.rs between the keyboard handler and its consumer *)

\* the kernel variables the handlers leave alone
kernel_rest == <<processes, current_pid, next_pid, kernel_page_table,
                 free_frames, rip, rax, sys, switch_to, exiting, returned,
                 exited, sys_exited, last_exit, irq, double_freed, created>>

\* ArrayQueue::new(100)
QueueCapacity == 100

\* the n-th key pressed sends scancode n (a u8)
Scancode(n) == n % 256

\* a line is delivered when the CPU takes interrupts and no line of the same
\* or a higher priority is in service: the timer is IRQ 0, the keyboard IRQ 1
Deliverable(line) ==
    /\ mode \in {"kernel", "user"}
    /\ IF line = "timer" THEN "timer" \notin pic ELSE pic = {}

\* a full queue gives up its oldest entry for the new one
ArrayQueue_push_evicts(items, value) ==
    IF Len(items) < QueueCapacity THEN Ok(Append(items, value))
    ELSE Ok(Append(Tail(items), value))

\* ArrayQueue::push: Err(value) when the queue is full
ArrayQueue_push(items, value) ==
    IF Len(items) < QueueCapacity THEN Ok(Append(items, value))
    ELSE Err(value)

\* task::keyboard::add_scancode: the queue afterwards and whether it took
\* the scancode
add_scancode(queue, scancode) ==
    IF queue.initialised
    THEN LET r == ArrayQueue_push(queue.items, scancode)
         IN  IF r.ok THEN [queue |-> [queue EXCEPT !.items = r.value],
                            pushed |-> TRUE]
             ELSE [queue |-> queue, pushed |-> FALSE]
    ELSE [queue |-> queue, pushed |-> FALSE]

\* kernel code holds PROCESS_MANAGER with interrupts enabled
\* (queue_user_program, queue_kernel_process)
process_manager_lock ==
    /\ mode = "kernel"
    /\ lock = "free"
    /\ lock' = "queue_user"
    /\ UNCHANGED <<mode, cr3, kernel_rest, loader_vars, fs_vars, abi, iret,
                   born, irq_vars>>

process_manager_unlock ==
    /\ mode = "kernel"
    /\ lock = "queue_user"
    /\ lock' = "free"
    /\ UNCHANGED <<mode, cr3, kernel_rest, loader_vars, fs_vars, abi, iret,
                   born, irq_vars>>

\* IRQ 0 is delivered: timer_handler is entered through its interrupt gate
\* and ensures the kernel page table
timer_interrupt ==
    /\ Deliverable("timer")
    /\ pic' = pic \cup {"timer"}
    /\ tick' = [step |-> "entered", eois |-> 0, handed_over |-> FALSE,
                from |-> mode]
    /\ mode' = "timer"
    /\ cr3' = EnsuredCr3
    /\ UNCHANGED <<lock, kernel_rest, loader_vars, fs_vars,
                   task_vars, abi, iret, born,
                   kbd, scancode_queue, heard>>

\* ProcessManager::check_for_process_to_start: Some(..) or None
ProcessToStart == BOOLEAN

\* check_and_start_processes: PROCESS_MANAGER.lock() spins while the
\* interrupted code holds the mutex; with a process to start the guard is
\* dropped and switch_to_user_mode_direct leaves the handler for good
check_and_start_processes(found) ==
    /\ mode = "timer"
    /\ tick.step = "entered"
    /\ IF lock # "free"
       THEN /\ mode' = "hung"
            /\ UNCHANGED <<tick, cr3>>
       ELSE IF found
       THEN /\ tick' = [tick EXCEPT !.step = "none", !.handed_over = TRUE]
            /\ mode' = "user"
            /\ cr3' = FirstFree(free_frames)
       ELSE /\ tick' = [tick EXCEPT !.step = "checked"]
            /\ UNCHANGED <<mode, cr3>>
    /\ UNCHANGED <<lock, kernel_rest, loader_vars, fs_vars,
                   task_vars, abi, iret, born,
                   pic, kbd, scancode_queue, heard>>

\* tick_executor, notify_end_of_interrupt(Timer), and the return; the
\* interrupted code ran on the kernel table, so no table is restored
timer_end_of_interrupt ==
    /\ mode = "timer"
    /\ tick.step = "checked"
    /\ pic' = pic \ {"timer"}
    /\ tick' = [tick EXCEPT !.step = "none", !.eois = @ + 1]
    /\ mode' = tick.from
    /\ UNCHANGED <<lock, cr3, kernel_rest, loader_vars, fs_vars,
                   task_vars, abi, iret,
                   born, kbd, scancode_queue, heard>>

timer_handler ==
    \/ timer_interrupt
    \/ \E found \in ProcessToStart : check_and_start_processes(found)
    \/ timer_end_of_interrupt

\* a key is pressed and IRQ 1 is delivered: keyboard_interrupt_handler is
\* entered through its interrupt gate
keyboard_interrupt ==
    /\ Deliverable("keyboard")
    /\ kbd.keys < MaxKeys
    /\ ~scancode_queue.initialised => kbd.keys < MaxEarlyKeys
    /\ kbd' = [keys |-> kbd.keys + 1,
               irq |-> [step |-> "entered", scancode |-> Scancode(kbd.keys + 1),
                        from |-> mode]]
    /\ pic' = pic \cup {"keyboard"}
    /\ mode' = "keyboard"
    /\ cr3' = EnsuredCr3
    /\ UNCHANGED <<lock, kernel_rest, loader_vars, fs_vars,
                   task_vars, abi, iret, born,
                   tick, scancode_queue, heard>>

\* port 0x60 is read and the scancode handed to add_scancode
keyboard_add_scancode ==
    /\ mode = "keyboard"
    /\ kbd.irq.step = "entered"
    /\ \E r \in {add_scancode(scancode_queue, kbd.irq.scancode)} :
            /\ scancode_queue' = r.queue
            /\ heard' = IF r.pushed
                        THEN [heard EXCEPT
                                !.pushed = Append(@, kbd.irq.scancode)]
                        ELSE heard
    /\ kbd' = [kbd EXCEPT !.irq.step = "pushed"]
    /\ UNCHANGED <<mode, lock, cr3, kernel_rest, loader_vars, fs_vars,
                   task_vars, abi,
                   iret, born, pic, tick>>

\* notify_end_of_interrupt(Keyboard) and the return
keyboard_end_of_interrupt ==
    /\ mode = "keyboard"
    /\ kbd.irq.step = "pushed"
    /\ pic' = pic \ {"keyboard"}
    /\ mode' = kbd.irq.from
    /\ kbd' = [kbd EXCEPT !.irq = NoKey]
    /\ UNCHANGED <<lock, cr3, kernel_rest, loader_vars, fs_vars,
                   task_vars, abi, iret,
                   born, tick, scancode_queue, heard>>

keyboard_handler ==
    \/ keyboard_interrupt
    \/ keyboard_add_scancode
    \/ keyboard_end_of_interrupt

\* ScancodeStream::new in the keyboard task
ScancodeStream_new ==
    /\ mode = "kernel"
    /\ ~scancode_queue.initialised
    /\ scancode_queue' = [initialised |-> TRUE, items |-> <<>>]
    /\ UNCHANGED <<mode, lock, cr3, kernel_rest, loader_vars, fs_vars,
                   task_vars, abi,
                   iret, born, pic, tick, kbd, heard>>

\* ScancodeStream::poll_next with a scancode in the queue: Poll::Ready
poll_next ==
    /\ mode = "kernel"
    /\ scancode_queue.initialised
    /\ scancode_queue.items # <<>>
    /\ heard' = [heard EXCEPT !.popped = Append(@, Head(scancode_queue.items))]
    /\ scancode_queue' = [scancode_queue EXCEPT !.items = Tail(@)]
    /\ UNCHANGED <<mode, lock, cr3, kernel_rest, loader_vars, fs_vars,
                   task_vars, abi,
                   iret, born, pic, tick, kbd>>

IrqInit ==
    /\ KernelInit
    /\ image = NoImage
    /\ load = NotLoaded
    /\ FsIdle
    /\ CpuQuiet

IrqNext ==
    \/ process_manager_lock
    \/ process_manager_unlock
    \/ timer_handler
    \/ keyboard_handler
    \/ ScancodeStream_new
    \/ poll_next

IrqSpec == IrqInit /\ [][IrqNext]_vars

-----------------------------------------------------------------------------
(* The async executor of main.rs with the keyboard task: Executor::spawn    *)
(* and run, TaskWaker, ScancodeStream::poll_next step by step, and the      *)
(* keyboard interrupt inside add_scancode.                                  *)

\* tasks are spawned while fewer than this many have been
MaxTasks == 2
\* keys are pressed while fewer than this many have been
MaxScancodes == 2
\* wakers kept outside the executor fire while fewer than this many have
MaxFires == 1

\* ArrayQueue::new(MAX_TASKS)
MAX_TASKS == 100

\* the keyboard task is the first one main spawns
KeyboardTask == 1

\* TaskId::new(): a fresh ID from a counter
TaskId_new(ex) == ex.next_id

task_rest == <<kernel_vars, loader_vars, fs_vars, abi, iret, born, pic, tick,
               kbd, heard>>

\* ArrayQueue::pop
ArrayQueue_pop(items) ==
    IF items = <<>> THEN [some |-> FALSE, value |-> 0, rest |-> items]
    ELSE [some |-> TRUE, value |-> Head(items), rest |-> Tail(items)]

\* TaskWaker::wake_task: task_queue.push(task_id).expect("task_queue full")
wake_task(ex, task_id) ==
    IF Len(ex.task_queue) < MAX_TASKS
    THEN [ex EXCEPT !.task_queue = Append(@, task_id)]
    ELSE [ex EXCEPT !.pc = "panic"]

\* Executor::spawn, called by main before run
spawn ==
    /\ executor.pc = "main"
    /\ executor.next_id <= MaxTasks
    /\ executor' =
          [wake_task(executor, TaskId_new(executor)) EXCEPT
              !.tasks = @ \cup {TaskId_new(executor)},
              !.next_id = @ + 1]
    /\ UNCHANGED <<waker, stream, scancode_queue, task_rest>>

\* Executor::run
run ==
    /\ executor.pc = "main"
    /\ executor' = [executor EXCEPT !.pc = "loop"]
    /\ UNCHANGED <<waker, stream, scancode_queue, task_rest>>

\* the task and its cached waker stay where they are
PollReady_keeps_task(ex, task_id) == ex

\* run_ready_tasks, Poll::Ready(()): tasks.remove, waker_cache.remove
PollReady(ex, task_id) ==
    [ex EXCEPT !.tasks = @ \ {task_id}, !.waker_cache = @ \ {task_id}]

\* run_ready_tasks: task_queue.pop(); an ID without a task is skipped,
\* otherwise the waker is taken from the cache or made, and the task polled
pop_task ==
    /\ executor.pc = "loop"
    /\ executor.task_queue # <<>>
    /\ LET task_id == Head(executor.task_queue)
       IN  IF task_id \notin executor.tasks
           THEN executor' = [executor EXCEPT !.task_queue = Tail(@)]
           ELSE executor' = [executor EXCEPT
                                !.task_queue = Tail(@),
                                !.waker_cache = @ \cup {task_id},
                                !.polling = task_id,
                                !.polled = @ \cup {task_id},
                                !.pc = "polling"]
    /\ UNCHANGED <<waker, stream, scancode_queue, task_rest>>

\* task.poll(&mut context) of a task other than the keyboard task: it may
\* wake itself (yield_now), hand a clone of its waker to someone else, and
\* return Ready or Pending
poll_task(ready, wake_self, keep) ==
    /\ executor.pc = "polling"
    /\ executor.polling # KeyboardTask
    /\ LET task_id == executor.polling
           woken == IF wake_self THEN wake_task(executor, task_id)
                    ELSE executor
           polled == IF ready THEN PollReady(woken, task_id) ELSE woken
       IN  executor' =
              [polled EXCEPT
                  !.pc = IF woken.pc = "panic" THEN "panic" ELSE "loop",
                  !.polling = NoTask,
                  !.held = IF keep THEN @ \cup {task_id} ELSE @,
                  !.done = IF ready THEN @ \cup {task_id} ELSE @]
    /\ UNCHANGED <<waker, stream, scancode_queue, task_rest>>

\* a waker kept outside the executor is fired: Wake::wake_by_ref
fire(task_id) ==
    /\ executor.pc \in {"loop", "polling", "idle"}
    /\ task_id \in executor.held
    /\ executor.fires < MaxFires
    /\ executor' = [wake_task(executor, task_id) EXCEPT !.fires = @ + 1]
    /\ UNCHANGED <<waker, stream, scancode_queue, task_rest>>

\* run_ready_tasks returns on an empty queue and sleep_if_idle is called
end_pass ==
    /\ executor.pc = "loop"
    /\ executor.task_queue = <<>>
    /\ executor' = [executor EXCEPT !.pc = "idle"]
    /\ UNCHANGED <<waker, stream, scancode_queue, task_rest>>

\* the loop of run comes round to run_ready_tasks with an ID in the queue
next_pass ==
    /\ executor.pc = "idle"
    /\ executor.task_queue # <<>>
    /\ executor' = [executor EXCEPT !.pc = "loop"]
    /\ UNCHANGED <<waker, stream, scancode_queue, task_rest>>

\* ---- AtomicWaker: state is the set of the flags REGISTERING and WAKING ----

\* AtomicWaker::take up to the fetch_or: on WAITING the caller gets the slot
\* and holds WAKING; otherwise the flag is left for the registering side
AtomicWaker_take(w) ==
    IF w.state = {}
    THEN [waker |-> [state |-> {"WAKING"}, slot |-> NoTask],
          grabbed |-> w.slot, owner |-> TRUE]
    ELSE [waker |-> [w EXCEPT !.state = @ \cup {"WAKING"}],
          grabbed |-> NoTask, owner |-> FALSE]

\* the end of AtomicWaker::take: fetch_and(!WAKING)
AtomicWaker_release(w) == [w EXCEPT !.state = @ \ {"WAKING"}]

\* ---- the keyboard task: print_keypresses ----

Polling(pc) == executor.pc = "polling" /\ executor.polling = KeyboardTask
                   /\ stream.pc = pc

\* ScancodeStream::new on the first poll
print_keypresses_start ==
    /\ Polling("new")
    /\ scancode_queue' = [initialised |-> TRUE, items |-> <<>>]
    /\ stream' = [stream EXCEPT !.pc = "poll"]
    /\ UNCHANGED <<executor, waker, task_rest>>

\* poll_next, fast path: queue.pop(); Some is Ready and the loop of
\* print_keypresses polls again
poll_next_fast_path ==
    /\ Polling("poll")
    /\ \E r \in {ArrayQueue_pop(scancode_queue.items)} :
          /\ scancode_queue' = [scancode_queue EXCEPT !.items = r.rest]
          /\ stream' = [stream EXCEPT
                           !.pc = IF r.some THEN "poll" ELSE "register"]
    /\ UNCHANGED <<executor, waker, task_rest>>

\* WAKER.register(&cx.waker()), up to the store of the waker: on WAKING the
\* new waker is woken at once and not stored
poll_next_register ==
    /\ Polling("register")
    /\ IF waker.state = {}
       THEN /\ waker' = [state |-> {"REGISTERING"}, slot |-> KeyboardTask]
            /\ stream' = [stream EXCEPT !.pc = "registering"]
            /\ UNCHANGED executor
       ELSE /\ executor' = wake_task(executor, KeyboardTask)
            /\ stream' = [stream EXCEPT !.pc = "second_pop"]
            /\ UNCHANGED waker
    /\ UNCHANGED <<scancode_queue, task_rest>>

\* the end of WAKER.register: back to WAITING, or, when a wake came in
\* between, the waker is taken out again and woken
poll_next_registered ==
    /\ Polling("registering")
    /\ IF waker.state = {"REGISTERING"}
       THEN /\ waker' = [waker EXCEPT !.state = {}]
            /\ UNCHANGED executor
       ELSE /\ waker' = [state |-> {}, slot |-> NoTask]
            /\ executor' = wake_task(executor, waker.slot)
    /\ stream' = [stream EXCEPT !.pc = "second_pop"]
    /\ UNCHANGED <<scancode_queue, task_rest>>

\* the second pop is left out
pop_after_register_skipped(items) ==
    [some |-> FALSE, value |-> 0, rest |-> items]

\* match queue.pop() after the waker is registered
pop_after_register(items) == ArrayQueue_pop(items)

\* Some(scancode) goes on to WAKER.take(), None is Poll::Pending
poll_next_second_pop ==
    /\ Polling("second_pop")
    /\ \E r \in {pop_after_register(scancode_queue.items)} :
          /\ scancode_queue' = [scancode_queue EXCEPT !.items = r.rest]
          /\ IF r.some
             THEN /\ stream' = [stream EXCEPT !.pc = "take"]
                  /\ UNCHANGED executor
             ELSE /\ stream' = [stream EXCEPT !.pc = "pending"]
                  /\ executor' = [executor EXCEPT !.pc = "loop",
                                                  !.polling = NoTask]
    /\ UNCHANGED <<waker, task_rest>>

\* WAKER.take(), then Poll::Ready(Some(scancode)): the waker taken is dropped
poll_next_take ==
    /\ Polling("take")
    /\ \E r \in {AtomicWaker_take(waker)} :
          waker' = IF r.owner THEN AtomicWaker_release(r.waker) ELSE r.waker
    /\ stream' = [stream EXCEPT !.pc = "poll"]
    /\ UNCHANGED <<executor, scancode_queue, task_rest>>

\* the executor pops the keyboard task after Poll::Pending: poll_next again
poll_again ==
    /\ Polling("pending")
    /\ stream' = [stream EXCEPT !.pc = "poll"]
    /\ UNCHANGED <<executor, waker, scancode_queue, task_rest>>

print_keypresses ==
    \/ print_keypresses_start
    \/ poll_next_fast_path
    \/ poll_next_register
    \/ poll_next_registered
    \/ poll_next_second_pop
    \/ poll_next_take
    \/ poll_again

\* ---- the keyboard interrupt: add_scancode ----

\* queue.push(scancode); WAKER.wake() follows only when the push went in
add_scancode_push ==
    /\ executor.pc \in {"loop", "polling", "idle"}
    /\ stream.irq = "none"
    /\ stream.keys < MaxScancodes
    /\ \E r \in {add_scancode(scancode_queue, Scancode(stream.keys + 1))} :
          /\ scancode_queue' = r.queue
          /\ stream' = [stream EXCEPT
                           !.keys = @ + 1,
                           !.irq = IF r.pushed THEN "wake" ELSE "none"]
    /\ UNCHANGED <<executor, waker, task_rest>>

\* WAKER.wake(): take()
add_scancode_wake ==
    /\ stream.irq = "wake"
    /\ \E r \in {AtomicWaker_take(waker)} :
          /\ waker' = r.waker
          /\ stream' = [stream EXCEPT
                           !.irq = IF r.owner THEN "waking" ELSE "none",
                           !.grabbed = r.grabbed]
    /\ UNCHANGED <<executor, scancode_queue, task_rest>>

\* the end of take() and waker.wake() on the waker that was in the slot
add_scancode_woken ==
    /\ stream.irq = "waking"
    /\ waker' = AtomicWaker_release(waker)
    /\ executor' = IF stream.grabbed = NoTask THEN executor
                   ELSE wake_task(executor, stream.grabbed)
    /\ stream' = [stream EXCEPT !.irq = "none", !.grabbed = NoTask]
    /\ UNCHANGED <<scancode_queue, task_rest>>

keyboard_interrupt_add_scancode ==
    \/ add_scancode_push
    \/ add_scancode_wake
    \/ add_scancode_woken

\* the steps of the thread that runs the executor
ExecutorStep ==
    \/ run
    \/ pop_task
    \/ \E ready, wake_self, keep \in BOOLEAN : poll_task(ready, wake_self, keep)
    \/ end_pass
    \/ next_pass
    \/ print_keypresses

TaskInit ==
    /\ KernelInit
    /\ image = NoImage
    /\ load = NotLoaded
    /\ FsIdle
    /\ CpuQuiet

TaskNext ==
    \/ spawn
    \/ ExecutorStep
    \/ \E task_id \in 1..MaxTasks : fire(task_id)
    \/ keyboard_interrupt_add_scancode

TaskSpec == TaskInit /\ [][TaskNext]_vars

\* the loop of Executor::run keeps running
TaskLiveSpec == TaskSpec /\ WF_vars(ExecutorStep)

-----------------------------------------------------------------------------
(* Properties *)

ReadyPids(procs) ==
    {procs[i].pid : i \in {j \in 1..Len(procs) : procs[j].state = "Ready"}}

MinOf(S) == CHOOSE x \in S : \A y \in S : x <= y

\* lowest Ready PID above p, else the lowest Ready PID
RoundRobinNext(procs, p) ==
    IF {q \in ReadyPids(procs) : q > p} # {}
    THEN MinOf({q \in ReadyPids(procs) : q > p})
    ELSE MinOf(ReadyPids(procs))

\* a step in which the scheduler selects a process
SchedulerPicks == mode # "switch" /\ mode' = "switch"

\* every process other than the current one is Ready
OthersReady ==
    \A i \in 1..Len(processes) :
        processes[i].pid # current_pid => processes[i].state = "Ready"

\* C1: whenever a Ready process exists, get_next_ready_process returns the
\* Ready process with the lowest PID above the current PID, or the lowest
\* Ready PID when none is above; and with processes 1, 2, 3 (all but the
\* current one Ready) each scheduler pick from current = c is (c mod 3) + 1,
\* i.e. 1, 2, 3, 1, 2, 3, ... from current = 0.
C1_RoundRobin ==
    /\ [](ReadyPids(processes) # {} =>
            get_next_ready_process(processes, current_pid)
                = RoundRobinNext(processes, current_pid))
    /\ [][(SchedulerPicks /\ Pids(processes) = {1, 2, 3} /\ OthersReady)
            => current_pid' = (current_pid % 3) + 1]_vars

\* the scheduler has wrapped around from the last entry to PID 1
C1_Witness ==
    /\ mode = "switch"
    /\ Len(processes) = 3
    /\ current_pid = 1
    /\ processes[3].has_saved_state
    /\ processes[2].has_saved_state

\* C2: with A=1, B=2, C=3, after B (the current process) has exited through
\* exit_current_process and A and C are Ready, the next process the
\* scheduler selects is C.
C2_NextAfterExitIsC ==
    [][(SchedulerPicks /\ last_exit = 2 /\ Pids(processes) = {1, 3}
            /\ ReadyPids(processes) = {1, 3})
        => current_pid' = 3]_vars

\* C3: the PIDs returned by successful creations start at 1 and strictly
\* increase, the table holds no PID twice and only returned PIDs, and the
\* next PID to be assigned is above every PID returned so far (so the PID of
\* an exited process is never handed out again).
C3_PidsUniqueMonotonic ==
    /\ \A i \in 1..Len(returned) : \A j \in 1..Len(returned) :
            i < j => returned[i] < returned[j]
    /\ Len(returned) > 0 => returned[1] = 1
    /\ \A i \in 1..Len(processes) : \A j \in 1..Len(processes) :
            i # j => processes[i].pid # processes[j].pid
    /\ Pids(processes) \subseteq {returned[i] : i \in 1..Len(returned)}
    /\ exited \subseteq {returned[i] : i \in 1..Len(returned)}
    /\ \A i \in 1..Len(returned) : returned[i] < next_pid

\* PID 3 was created on the frames that exited PID 2 gave back
C3_Witness ==
    /\ 2 \in exited
    /\ 2 \notin Pids(processes)
    /\ \E i \in 1..Len(processes) :
            /\ processes[i].pid = 3
            /\ processes[i].process_type = "User"
            /\ processes[i].page_table_frame = 1
    /\ \E i \in 1..Len(processes) :
            /\ processes[i].pid = 1
            /\ processes[i].process_type = "Kernel"

\* C4: once the scheduler has completed a tick that selected a process which
\* has not exited, the table holds no Terminated entry and no entry of a
\* process that has exited.
C4_ExitedEntryRemoved ==
    (mode = "switch" /\ switch_to.pid \notin exited) =>
        \A i \in 1..Len(processes) :
            /\ processes[i].state # "Terminated"
            /\ processes[i].pid \notin exited

\* C5: a process whose syscall 60 has been handled is never running in user
\* mode again and is never again the process the scheduler selects.
C5_NeverSelectedAfterSysExit ==
    /\ mode = "user" => current_pid \notin sys_exited
    /\ mode = "switch" => switch_to.pid \notin sys_exited

\* a syscall handler step that ends the handling of the current syscall
SyscallEnds == mode = "syscall" /\ sys.phase = "entered"
               /\ mode' \in {"user", "idle"}

\* C6: a syscall with a number other than 1 and 60 returns to user mode in
\* the same process with RAX = u64::MAX and RIP advanced by 2.
C6_UnknownSyscallReturns ==
    [][(SyscallEnds /\ sys.rax \notin {1, 60}) =>
            /\ mode' = "user"
            /\ rax' = U64_MAX
            /\ rip' = sys.rip + 2
            /\ current_pid' = current_pid]_vars

\* C7: the dispatcher returns count for sys_write on fd 1, 0 for sys_write
\* on another fd and u64::MAX for a number other than 1 and 60, and every
\* sys_write returns to the calling process with that value in RAX.
C7_DispatchAndWriteReturns ==
    [][(SyscallEnds /\ sys.rax # 60) =>
            /\ handle_syscall(sys.rax, sys.rdi, sys.rsi, sys.rdx) =
                  IF sys.rax = 1
                  THEN (IF sys.rdi = 1 THEN sys.rdx ELSE 0)
                  ELSE U64_MAX
            /\ sys.rax = 1 =>
                  /\ mode' = "user"
                  /\ current_pid' = current_pid
                  /\ rax' = (IF sys.rdi = 1 THEN sys.rdx ELSE 0)]_vars

\* a step that is a timer tick: the scheduler entry ends in a dispatch or in
\* one of its loops
TimerTick == InterruptsEnabled /\ mode' \in {"switch", "hung"}

\* C8: a timer tick that arrives while the process-manager lock is held
\* leaves the table and the current PID alone and returns control to the
\* interrupted code.
C8_TickSkipsWhenLocked ==
    [][(TimerTick /\ lock # "free") =>
            /\ processes' = processes
            /\ current_pid' = current_pid
            /\ mode' = mode]_vars

\* a step that ends in iretq: a context switch or a syscall return
Iretq == mode \in {"switch", "syscall"} /\ mode' \in {"user", "kproc", "fault"}

C10_KernelCr3BeforeTeardown ==
    /\ mode = "exiting" => cr3 = KernelFrame
    /\ cr3 \notin free_frames

\* a user process has just been torn down after running on its own table
C10_Witness ==
    /\ mode = "idle"
    /\ last_exit # NoPid
    /\ last_exit \notin Pids(processes)
    /\ free_frames # {}
    /\ cr3 = KernelFrame

UserProcesses ==
    {i \in 1..Len(processes) : processes[i].process_type = "User"}

\* C12: no frame backs a user page (segment page or stack page) of two
\* processes in the table, over every sequence of creations and exits.
C12_UserFramesPrivate ==
    \A i \in UserProcesses : \A j \in UserProcesses :
        i # j => processes[i].user_frames \cap processes[j].user_frames = {}

\* two user processes are live, one of them on frames that an exited process
\* gave back, and every frame is in use
C12_Witness ==
    /\ 1 \in exited
    /\ 1 \notin Pids(processes)
    /\ Cardinality(UserProcesses) = 2
    /\ \E i \in UserProcesses : 1 \in processes[i].user_frames
                                    \cup {processes[i].page_table_frame}
    /\ free_frames = {}

\* the frames an address space owns: its table and its user pages
OwnedFrames(process) == {process.page_table_frame} \cup process.user_frames

\* C13: when exit_current_process has torn down a user process, every frame
\* its address space owned is on the free list, and no frame is ever freed
\* while it is already on the free list.
C13_FramesFreedOnce ==
    /\ [](double_freed = {})
    /\ [][(mode = "exiting" /\ mode' # "exiting"
              /\ exiting.process_type = "User")
            => OwnedFrames(exiting) \subseteq free_frames']_vars

\* the only user process has exited and all frames are free again
C13_Witness ==
    /\ created.result = "Ok"
    /\ last_exit = created.pid
    /\ processes = <<>>
    /\ free_frames = Frames
    /\ double_freed = {}

\* the byte the loaded address space holds at a mapped address
ByteAt(pages, a) ==
    LET pg == pages[CHOOSE i \in 1..Len(pages) :
                        pages[i].vaddr = a - (a % PageSize)]
        o  == a - pg.vaddr
    IN  IF pg.data_start <= o /\ o < pg.data_start + pg.data_len
        THEN ImageByte(pg.src + (o - pg.data_start))
        ELSE 0

\* C14: when create_process has loaded an image, then for every PT_LOAD
\* segment every address of [p_vaddr, p_vaddr + p_memsz) is mapped, the bytes
\* at [p_vaddr, p_vaddr + p_filesz) are the image bytes from p_offset on, and
\* the bytes from p_vaddr + p_filesz up to p_vaddr + p_memsz are zero.
C14_SegmentBytesLoaded ==
    load.result = "Ok" =>
        \A i \in 1..Len(image.segments) :
            LET ph == image.segments[i]
            IN  ph.p_type = "PT_LOAD" =>
                    \A a \in ph.p_vaddr..(ph.p_vaddr + ph.p_memsz - 1) :
                        /\ IsMapped(load.process.pages, a - (a % PageSize))
                        /\ ByteAt(load.process.pages, a) =
                              IF a < ph.p_vaddr + ph.p_filesz
                              THEN ImageByte(ph.p_offset + (a - ph.p_vaddr))
                              ELSE 0

\* a loaded segment that starts inside a page, has file data in more than
\* one page and has bss after it
C14_Witness ==
    /\ load.result = "Ok"
    /\ Len(image.segments) = 1
    /\ image.segments[1].p_vaddr % PageSize # 0
    /\ image.segments[1].p_filesz > PageSize
    /\ image.segments[1].p_memsz > image.segments[1].p_filesz
    /\ image.segments[1].p_offset > 0

\* some PT_LOAD segment's file range runs past the end of the image
SegmentBeyondImage(binary) ==
    \E i \in 1..Len(binary.segments) :
        /\ binary.segments[i].p_type = "PT_LOAD"
        /\ binary.segments[i].p_offset + binary.segments[i].p_filesz
              > binary.len

\* C15: create_process on an image that is no well-formed ELF, or that has a
\* PT_LOAD segment whose file range runs past the end of the image, returns
\* Err(InvalidProgram) (and does not panic).
C15_InvalidProgramReturned ==
    (load # NotLoaded /\ (~image.well_formed \/ SegmentBeyondImage(image)))
        => load.result = "InvalidProgram"

\* C16: create_process makes no process whose entry point or initial stack
\* pointer is outside the user lower half; an image with such an entry point
\* is refused with InvalidInstructionPointer.
C16_EntryPointValidated ==
    /\ load.result = "Ok" =>
          (IsUserAddr(load.process.rip) /\ IsUserAddr(load.process.rsp))
    /\ (load # NotLoaded /\ image.well_formed /\ ~SegmentBeyondImage(image)
            /\ ~IsUserAddr(image.entry))
          => load.result = "InvalidInstructionPointer"

\* a step in which create_process returns Ok
CreatedOk == lock = "queue_user" /\ lock' = "free" /\ created'.result = "Ok"

\* C17: after a successful create_process the last entry of the table is the
\* new process: Ready, has_saved_state false, saved RIP the ELF entry point,
\* saved RSP 0x800000 + 0x1000 - 8 = 0x800ff8, saved RFLAGS 0x202, every
\* other saved register zero.
C17_InitialRegisters ==
    [][CreatedOk =>
        LET new == processes'[Len(processes')]
        IN  /\ Len(processes') = Len(processes) + 1
            /\ new.pid = created'.pid
            /\ new.state = "Ready"
            /\ new.has_saved_state = FALSE
            /\ new.rip = created'.binary.entry
            /\ new.rsp = 8392696
            /\ new.rflags = 514
            /\ new.gprs = 0]_vars

\* a second user process has just been created next to a running one
C17_Witness ==
    /\ created.result = "Ok"
    /\ created.pid = 2
    /\ Len(processes) = 2
    /\ processes[2].pid = 2
    /\ processes[2].process_type = "User"
    /\ processes[2].state = "Ready"
    /\ processes[1].state = "Running"
    /\ lock = "free"

\* ---- FAT32 ----

NotFat32 == "This is not a FAT32 filesystem (FAT16/12 detected)"

\* bytes 510 and 511 of the sector are 0x55 and 0xAA
SignatureOnDisk == disk.boot.signature = <<85, 170>>

\* bytes 22 and 23 of the sector are not both zero
Fat16OnDisk == disk.boot.sectors_per_fat_16 # <<0, 0>>

\* C18: mounting fails, and leaves no filesystem to call, exactly when the
\* boot sector's signature is not 0xAA55 or its 16-bit sectors-per-FAT field
\* is not zero; with a good signature and a non-zero field the volume is
\* rejected as not FAT32.
C18_MountFailsOnBadBootSector ==
    fs # "none" =>
        /\ fs # "mounted" <=> (~SignatureOnDisk \/ Fat16OnDisk)
        /\ (SignatureOnDisk /\ Fat16OnDisk) => fs = NotFat32
        /\ fs # "mounted" => (fs_op.op = "new" /\ ~fs_op.result.ok)

C18_Witness ==
    /\ fs = NotFat32
    /\ SignatureOnDisk
    /\ disk.boot.sectors_per_fat_16 = <<0, 1>>

\* the 32-byte entries of a directory in on-disk order, along its chain
EntriesOnDisk(d, dir_cluster) ==
    LET slots == DirectorySlotsOf(d, dir_cluster)
    IN [k \in 1..Len(slots) |-> d.dir[slots[k][1]][slots[k][2]]]

\* those before the first entry whose first byte is 0x00
BeforeEnd(es) ==
    LET ends == {k \in 1..Len(es) : es[k].name[1] = 0}
    IN IF ends = {} THEN es
       ELSE SubSeq(es, 1, (CHOOSE k \in ends : \A j \in ends : k <= j) - 1)

\* not deleted, not long-name, not volume-ID
Listed(e) ==
    /\ e.name[1] # 229
    /\ e.attributes # 15
    /\ (e.attributes \div 8) % 2 = 0

ExpectedListing(d, dir_cluster) ==
    LET kept == SelectSeq(BeforeEnd(EntriesOnDisk(d, dir_cluster)), Listed)
    IN [i \in 1..Len(kept) |-> entry_to_file_entry(kept[i])]

\* C19: list_directory returns, in on-disk order, exactly the entries of the
\* directory's cluster chain that come before the first 0x00 entry and are
\* not deleted, not long-name and not volume-ID.
C19_ListDirectoryReturnsLiveEntries ==
    fs_op.op = "list_directory" =>
        fs_op.result = Ok(ExpectedListing(disk, RootCluster))

\* C20: after a file is created, reading len(data) bytes from the created
\* entry's first cluster returns exactly data.
C20_ReadReturnsCreatedData ==
    (/\ fs_op.op = "read_file"
     /\ fs_op.file_size = Len(last_created.data))
        => fs_op.result = Ok(last_created.data)

\* the data read back ends part-way into the second cluster of its chain
C20_Witness ==
    /\ fs_op.op = "read_file"
    /\ fs_op.file_size = ClusterSize + 1
    /\ Len(last_created.data) = ClusterSize + 1
    /\ fs_op.result.ok
    /\ fs_op.result.value = Contents(ClusterSize + 1)
    /\ get_next_cluster(disk, last_created.first_cluster).value \in Clusters

\* C21: after a delete that succeeds, find returns None for the name, every
\* cluster of the file's chain has the FAT entry 0x00000000, and a create that
\* needs every free cluster of the volume succeeds and takes them.
C21_DeleteFreesChain ==
    (fs_op.op = "delete_file" /\ fs_op.result.ok) =>
        /\ find_file_in_directory(disk, RootCluster, fs_op.filename) = Ok(<<>>)
        /\ \A c \in last_deleted.chain : disk.fat[c] = 0
        /\ LET r == create_file(disk, RootCluster, fs_op.filename,
                                Contents(Cardinality(FreeClusters(disk))
                                         * ClusterSize))
           IN /\ r.ok
              /\ \A c \in last_deleted.chain : r.value.disk.fat[c] # 0

\* a file of two clusters was deleted, and the next create was given its
\* first cluster
C21_Witness ==
    /\ fs_op.op = "create_file"
    /\ fs_op.result.ok
    /\ Cardinality(last_deleted.chain) = 2
    /\ last_created.first_cluster \in last_deleted.chain
    /\ fs_cpu.call = NoCall

\* C22: while a create, delete or write is in progress the filesystem lock is
\* held and interrupts are off, no interrupt handler has run since the call
\* began, and once the call is over the lock is free and the interrupt flag
\* is what the caller had.
C22_MutationsNotPreempted ==
    /\ fs_cpu.call # NoCall => (fs_cpu.lock /\ ~fs_cpu.interrupts)
    /\ ~fs_cpu.preempted
    /\ fs_cpu.call = NoCall =>
          (~fs_cpu.lock /\ fs_cpu.interrupts = fs_cpu.caller)

\* a delete made with interrupts on is over, and interrupts are on again
C22_Witness ==
    /\ fs_cpu.call = NoCall
    /\ fs_op.op = "delete_file"
    /\ fs_op.result.ok
    /\ fs_cpu.was_enabled
    /\ fs_cpu.interrupts

\* C23: a system call that returns to user mode was dispatched with the
\* caller's RAX as number and the caller's RDI, RSI, RDX as arguments; at the
\* return the user RIP is the RIP of the trap frame plus 2, RAX holds the
\* handler's result, and RBX, RCX, RDX, RSI, RDI, RBP hold what they held at
\* the int 0x80 instruction.
C23_SyscallAbi ==
    abi.phase = "returned" =>
        LET at == abi.at_int.regs
        IN  /\ abi.call = <<at.rax, at.rdi, at.rsi, at.rdx>>
            /\ abi.rip = abi.at_int.rip + 2
            /\ abi.regs.rax = handle_syscall(at.rax, at.rdi, at.rsi, at.rdx)
            /\ abi.regs.rbx = at.rbx
            /\ abi.regs.rcx = at.rcx
            /\ abi.regs.rdx = at.rdx
            /\ abi.regs.rsi = at.rsi
            /\ abi.regs.rdi = at.rdi
            /\ abi.regs.rbp = at.rbp

\* sys_write(1, 16, 17) returned 17 although the Rust function left 77 in
\* every register it may overwrite
C23_Witness ==
    /\ abi.phase = "returned"
    /\ abi.call = <<1, 1, 16, 17>>
    /\ abi.regs.rax = 17
    /\ abi.regs.r11 = abi.at_int.rip + 2
    /\ abi.stack = <<>>

\* C24: a step of the scheduler that moves a process from Running to Ready
\* leaves the trap frame's RIP, RSP and RFLAGS in the process's saved
\* registers and has_saved_state = TRUE, whichever entry into the scheduler
\* was taken (timer tick with a frame, schedule() without one).
C24_PreemptionSavesState ==
    [][\A i \in 1..Len(processes) :
            LET before == processes[i]
                after  == get_process(processes', before.pid)
            IN  (/\ before.state = "Running"
                 /\ Position(processes', before.pid) # 0
                 /\ after.state = "Ready") =>
                    /\ after.has_saved_state
                    /\ after.rip = FrameRip
                    /\ after.rsp = FrameRsp
                    /\ after.rflags = FrameRflags]_vars

\* the record the creation of the process left in the history
BornAs(pid) == CHOOSE b \in born : b.pid = pid

\* context_switch_to runs on the clone in switch_to
ContextSwitch == mode = "switch" /\ mode' # "switch"

\* C25: a context switch takes the first-run path (registers cleared,
\* RFLAGS 0x202, RIP the entry point, RSP the initial stack pointer) exactly
\* when the process's has_saved_state is false and otherwise resumes from the
\* saved RIP, RSP, RFLAGS; a process is created with has_saved_state false,
\* the flag becomes true only in a step that saves the trap frame, and it
\* never becomes false again.
C25_ColdStartIffNoSavedState ==
    [][/\ ContextSwitch =>
            /\ iret'.path = "first_run" <=> ~switch_to.has_saved_state
            /\ iret'.path = "first_run" =>
                    /\ iret'.gprs = 0
                    /\ iret'.rflags = 514
                    /\ iret'.rip = BornAs(switch_to.pid).rip
                    /\ iret'.rsp = BornAs(switch_to.pid).rsp
            /\ iret'.path # "first_run" =>
                    /\ iret'.path = "resume"
                    /\ iret'.rip = switch_to.rip
                    /\ iret'.rsp = switch_to.rsp
                    /\ iret'.rflags = switch_to.rflags
            /\ rip' = iret'.rip
       /\ \A j \in 1..Len(processes') :
            Position(processes, processes'[j].pid) = 0 =>
                ~processes'[j].has_saved_state
       /\ \A i \in 1..Len(processes) :
            LET before == processes[i]
                after  == get_process(processes', before.pid)
            IN  Position(processes', before.pid) # 0 =>
                    /\ before.has_saved_state => after.has_saved_state
                    /\ (~before.has_saved_state /\ after.has_saved_state) =>
                            /\ after.rip = FrameRip
                            /\ after.rsp = FrameRsp
                            /\ after.rflags = FrameRflags
                    /\ (~before.has_saved_state /\ ~after.has_saved_state) =>
                            /\ after.rip = before.rip
                            /\ after.rsp = before.rsp]_vars

\* a user process that was preempted after a system call had moved it past
\* its entry point has been resumed there, next to a process that has not
\* run yet
C25_Witness ==
    /\ iret.path = "resume"
    /\ iret.rip # BornAs(iret.pid).rip
    /\ mode = "user"
    /\ rip = iret.rip
    /\ \E i \in 1..Len(processes) :
            /\ processes[i].pid # iret.pid
            /\ ~processes[i].has_saved_state

\* the state changes the lifecycle allows
Lifecycle == {<<"Ready", "Running">>, <<"Running", "Ready">>,
              <<"Ready", "Terminated">>, <<"Running", "Terminated">>}

\* C26: a process enters the table Ready; every later change of its state is
\* Ready to Running, Running to Ready, or to Terminated; a Terminated process
\* is never Ready or Running again.
C26_Lifecycle ==
    [][/\ \A j \in 1..Len(processes') :
            Position(processes, processes'[j].pid) = 0 =>
                processes'[j].state = "Ready"
       /\ \A i \in 1..Len(processes) :
            LET before == processes[i]
                after  == get_process(processes', before.pid)
            IN  (Position(processes', before.pid) # 0
                    /\ after.state # before.state) =>
                        <<before.state, after.state>> \in Lifecycle]_vars

\* ProcessManager::get_current_process: <<>> is None
get_current_process(procs, cur) ==
    IF cur = NoPid \/ Position(procs, cur) = 0 THEN <<>>
    ELSE <<get_process(procs, cur)>>

RunningPids == {processes[i].pid : i \in {j \in 1..Len(processes) :
                                            processes[j].state = "Running"}}

\* C27: the current PID is 0 or names a process in the table whose state is
\* Running, at most one process is Running, and get_current_process returns
\* Some only for a process the scheduler selected that has neither been
\* replaced nor exited.
C27_CurrentIsRunning ==
    /\ current_pid # NoPid =>
            /\ Position(processes, current_pid) # 0
            /\ get_process(processes, current_pid).state = "Running"
    /\ Cardinality(RunningPids) <= 1
    /\ get_current_process(processes, current_pid) # <<>> =>
            /\ get_current_process(processes, current_pid)[1].pid = current_pid
            /\ current_pid \notin exited

\* the scheduler is entered with the lock free, no Ready process and no
\* current process
NothingToRun ==
    /\ TimerTick
    /\ lock = "free"
    /\ current_pid = NoPid
    /\ \A i \in 1..Len(processes) : processes[i].state # "Ready"

\* C28: a scheduler run that finds no Ready process and no current process
\* selects nothing, leaves the current PID at none and CR3 on the kernel
\* table, and leaves the CPU in the halt loop with the process manager
\* unlocked, where the next timer interrupt enters the scheduler again.
C28_IdleWhenNothingReady ==
    [][NothingToRun =>
            /\ current_pid' = NoPid
            /\ switch_to' = NoProcess
            /\ cr3' = KernelFrame
            /\ mode' = "idle"
            /\ lock' = "free"]_vars

\* C29: the timer's end-of-interrupt has been issued, once, by the time a
\* tick hands control to the process-start entry, and no tick issues it more
\* than once.
C29_TimerEoiBeforeHandover ==
    /\ tick.eois <= 1
    /\ tick.handed_over => (tick.eois = 1 /\ "timer" \notin pic)

\* the keyboard handler makes its push attempt
PushAttempt == kbd.irq.step = "entered" /\ kbd'.irq.step = "pushed"

\* C30: the queue never holds more than 100 scancodes; a push attempt on an
\* initialised queue with room appends the scancode, and on a full or
\* uninitialised queue changes nothing and still returns to the handler; the
\* consumer is given the scancodes the queue took, in the order it took
\* them; the keyboard's end-of-interrupt is issued only after the push
\* attempt.
C30_ScancodeQueueBoundedFifo ==
    /\ [](Len(scancode_queue.items) <= 100)
    /\ [](heard.popped \o scancode_queue.items = heard.pushed)
    /\ [][/\ PushAttempt =>
                /\ mode' = "keyboard"
                /\ IF scancode_queue.initialised
                        /\ Len(scancode_queue.items) < 100
                   THEN scancode_queue'.items =
                            Append(scancode_queue.items, kbd.irq.scancode)
                   ELSE scancode_queue' = scancode_queue
          /\ ("keyboard" \in pic /\ "keyboard" \notin pic') =>
                kbd.irq.step = "pushed"]_vars

\* one scancode was dropped before the queue existed and one because the
\* queue was full; the consumer then took the oldest and the next key went in
C30_Witness ==
    /\ kbd.keys = 103
    /\ kbd.irq = NoKey
    /\ Len(heard.pushed) = 101
    /\ heard.pushed[1] = 2
    /\ heard.pushed[100] = 101
    /\ heard.pushed[101] = 103
    /\ heard.popped = <<2>>
    /\ Len(scancode_queue.items) = 100


\* the pages a program header spans when taken as a range of memory
SpanOf(ph) ==
    {v \in 0..(ph.p_vaddr + ph.p_memsz) :
        /\ v % PageSize = 0
        /\ v + PageSize > ph.p_vaddr
        /\ v < ph.p_vaddr + ph.p_memsz}

\* the page was mapped with the protection the header asks for
MappedFor(page, ph) ==
    /\ ph.p_type = "PT_LOAD"
    /\ page.vaddr >= segment_virtual_addr(ph)
    /\ {"PRESENT", "USER_ACCESSIBLE"} \subseteq page.flags
    /\ "WRITABLE" \in page.flags <=> "W" \in ph.p_flags
    /\ "NO_EXECUTE" \in page.flags <=> "X" \notin ph.p_flags

\* C31: in a process create_process has built, the stack page at 0x800000 is
\* mapped present, writable, user-accessible and no-execute; every other
\* mapped page belongs to a PT_LOAD header and is present and
\* user-accessible, writable exactly when the header has PF_W and no-execute
\* exactly when it lacks PF_X; a header of another type has no page mapped
\* in the range it names.
C31_PageProtection ==
    load.result = "Ok" =>
        LET pages == load.process.pages
        IN  /\ pages[1].vaddr = StackBase
            /\ pages[1].flags =
                   {"PRESENT", "WRITABLE", "USER_ACCESSIBLE", "NO_EXECUTE"}
            /\ \A k \in 2..Len(pages) :
                   \E i \in 1..Len(image.segments) :
                       MappedFor(pages[k], image.segments[i])
            /\ \A i \in 1..Len(image.segments) :
                   image.segments[i].p_type # "PT_LOAD" =>
                       \A k \in 1..Len(pages) :
                           pages[k].vaddr \notin SpanOf(image.segments[i])

\* a program with read-execute text, a note header and read-write data was
\* loaded: the text page is executable and read-only, the data page
\* writable and no-execute
C31_Witness ==
    /\ load.result = "Ok"
    /\ \E i \in 1..Len(image.segments) : image.segments[i].p_type = "PT_NOTE"
    /\ \E k \in 2..Len(load.process.pages) :
           /\ "WRITABLE" \notin load.process.pages[k].flags
           /\ "NO_EXECUTE" \notin load.process.pages[k].flags
    /\ \E k \in 2..Len(load.process.pages) :
           /\ "WRITABLE" \in load.process.pages[k].flags
           /\ "NO_EXECUTE" \in load.process.pages[k].flags


\* round_down(p_vaddr, 4096) and round_up(p_vaddr + p_memsz, 4096)
RoundDown(a) == (a \div PageSize) * PageSize

RoundUp(a) == ((a + PageSize - 1) \div PageSize) * PageSize

\* the pages of the page-aligned span of [p_vaddr, p_vaddr + p_memsz)
AlignedSpan(ph) ==
    {v \in RoundDown(ph.p_vaddr)..RoundUp(ph.p_vaddr + ph.p_memsz) :
        v % PageSize = 0 /\ v < RoundUp(ph.p_vaddr + ph.p_memsz)}

LoadableOf(binary) ==
    {i \in 1..Len(binary.segments) : binary.segments[i].p_type = "PT_LOAD"}

\* C32: in a process create_process has built, the pages mapped besides the
\* stack page are exactly the pages of the page-aligned spans of the PT_LOAD
\* segments, one frame each: for every segment
\* (round_up(p_vaddr + p_memsz, 4096) - round_down(p_vaddr, 4096)) / 4096
\* pages are mapped and none lies outside the span.
C32_PagesOfSpan ==
    load.result = "Ok" =>
        LET pages == load.process.pages
            mapped == {pages[k].vaddr : k \in 2..Len(pages)}
        IN  /\ mapped = UNION {AlignedSpan(image.segments[i]) :
                                   i \in LoadableOf(image)}
            /\ Len(pages) - 1 = Cardinality(mapped)
            /\ \A i \in LoadableOf(image) :
                   pages_needed(image.segments[i]) =
                       (RoundUp(image.segments[i].p_vaddr
                                    + image.segments[i].p_memsz)
                            - RoundDown(image.segments[i].p_vaddr))
                           \div PageSize

\* the loader never maps fewer pages than the span has: every page of the
\* span of every PT_LOAD segment is mapped
PagesCoverSpan ==
    load.result = "Ok" =>
        \A i \in LoadableOf(image) :
            \A v \in AlignedSpan(image.segments[i]) :
                IsMapped(load.process.pages, v)


\* the clusters read_directory_entries hands to read_cluster, in order, when
\* the walk ends on a FAT entry of end_mark or more
RECURSIVE ClustersReadUntil(_, _, _, _)
ClustersReadUntil(d, current_cluster, end_mark, fuel) ==
    IF fuel = 0 THEN <<>>
    ELSE
    LET r == read_cluster(d, current_cluster) IN
    IF ~r.ok THEN <<current_cluster>>
    ELSE IF ScanEntries(r.value.dir, 1, <<>>).ended THEN <<current_cluster>>
    ELSE
    LET next_cluster == get_next_cluster(d, current_cluster) IN
    IF ~next_cluster.ok THEN <<current_cluster>>
    ELSE IF next_cluster.value >= end_mark THEN <<current_cluster>>
    ELSE <<current_cluster>>
         \o ClustersReadUntil(d, next_cluster.value, end_mark, fuel - 1)

\* the walk of the loop in read_directory_entries
ClustersRead(d, cluster) == ClustersReadUntil(d, cluster, END_OF_CHAIN, WalkFuel)

\* C33: the directory walk follows a FAT entry exactly when its low 28 bits
\* are below 0x0FFFFFF8: the clusters it reads are the ones a walk ending on
\* every value of 0x0FFFFFF8..0x0FFFFFFF reads, and no value of that range is
\* ever used as a cluster number.
C33_EndOfChainRange ==
    fs_op.op = "list_directory" =>
        /\ ClustersRead(disk, RootCluster)
               = ClustersReadUntil(disk, RootCluster, EndOfChainMin, WalkFuel)
        /\ \A k \in 1..Len(ClustersRead(disk, RootCluster)) :
               ClustersRead(disk, RootCluster)[k] < EndOfChainMin

\* the walk reads on across entries with a reserved high bit set, and stops
\* at 0x0FFFFFFF whatever the high bits are: only the low 28 bits count
WalkUsesLow28Bits ==
    fs_op.op = "list_directory" =>
        \A k \in 1..Len(ClustersRead(disk, RootCluster)) :
            LET c == ClustersRead(disk, RootCluster)[k]
            IN  c \in Clusters \/ c = EndOfChainMin


\* the chain from c as section 4.7 reads it: it ends on an entry whose low
\* 28 bits are 0x0FFFFFF8 or more; ok is false when an entry is neither a
\* cluster of the volume nor an end mark
RECURSIVE ChainTo(_, _, _)
ChainTo(d, c, fuel) ==
    IF c \notin Clusters \/ fuel = 0 THEN [ok |-> FALSE, clusters |-> <<>>]
    ELSE LET next == And(d.fat[c], MASK)
         IN  IF next >= EndOfChainMin THEN [ok |-> TRUE, clusters |-> <<c>>]
             ELSE LET rest == ChainTo(d, next, fuel - 1)
                  IN  [ok |-> rest.ok, clusters |-> <<c>> \o rest.clusters]

\* the data of the clusters of a chain, one after the other
RECURSIVE ChainData(_, _)
ChainData(d, clusters) ==
    IF clusters = <<>> THEN <<>>
    ELSE d.data[clusters[1]] \o ChainData(d, Tail(clusters))

\* the first n elements of s, or all of s when it has fewer
Take(s, n) == SubSeq(s, 1, Min(n, Len(s)))

\* C34: read(first_cluster, size) on a chain of the volume returns the data
\* of the chain's clusters in order, cut to size bytes: exactly size bytes
\* when the chain holds them, all the chain holds when it ends early, never
\* more than size; with size 0 it returns the empty sequence whatever the
\* first cluster is, also one a disk read would fail on.
C34_ReadReturnsChainData ==
    fs_op.op = "read_chain" =>
        /\ fs_op.file_size = 0 => fs_op.result = Ok(<<>>)
        /\ fs_op.result.ok => Len(fs_op.result.value) <= fs_op.file_size
        /\ ChainTo(disk, fs_op.first_cluster, WalkFuel).ok =>
               fs_op.result =
                   Ok(Take(ChainData(disk,
                               ChainTo(disk, fs_op.first_cluster,
                                       WalkFuel).clusters),
                           fs_op.file_size))

\* the same for the chains that end in 0x0FFFFFFF, or that hold all the bytes
\* asked for
ReadReturnsChainDataUpToMark ==
    /\ (fs_op.op = "read_chain" /\ fs_op.file_size = 0)
           => fs_op.result = Ok(<<>>)
    /\ (fs_op.op = "read_chain" /\ fs_op.result.ok)
           => Len(fs_op.result.value) <= fs_op.file_size
    /\ (/\ fs_op.op = "read_chain"
        /\ ChainTo(disk, fs_op.first_cluster, WalkFuel).ok)
        => LET chain == ChainTo(disk, fs_op.first_cluster, WalkFuel).clusters
               last == And(disk.fat[chain[Len(chain)]], MASK)
           IN  (last = END_OF_CHAIN
                    \/ Len(chain) * ClusterSize >= fs_op.file_size)
                   => fs_op.result =
                          Ok(Take(ChainData(disk, chain), fs_op.file_size))

\* a chain of two clusters, the higher one first, was read: one byte more
\* than a cluster was asked for
ReadChainSeen ==
    /\ fs_op.op = "read_chain"
    /\ fs_op.first_cluster = 4
    /\ And(disk.fat[4], MASK) = 3
    /\ And(disk.fat[3], MASK) = END_OF_CHAIN
    /\ fs_op.file_size = ClusterSize + 1
    /\ fs_op.result = Ok(disk.data[4] \o <<disk.data[3][1]>>)

\* the FAT entries lead from c back to c
RECURSIVE LeadsBack(_, _, _, _)
LeadsBack(d, c, to, fuel) ==
    /\ fuel > 0
    /\ c \in DOMAIN d.fat
    /\ \/ And(d.fat[c], MASK) = to
       \/ LeadsBack(d, And(d.fat[c], MASK), to, fuel - 1)

\* C40: list_directory returns, with a listing or an error, on every volume:
\* also when the chain of the directory comes back to a cluster it has
\* passed, or runs into a free or a bad entry, and no entry of it starts
\* with 0x00.
C40_ListDirectoryReturns ==
    fs_op.op = "list_chain" => fs_op.result # Err("does not return")

\* the walk fails to return only on a chain that comes back to its start;
\* on a free or a bad entry it goes on to cluster 0 or off the volume and
\* ends there
ListDirectoryLoopsOnCycleOnly ==
    (fs_op.op = "list_chain" /\ fs_op.result = Err("does not return"))
        => LeadsBack(disk, fs_op.first_cluster, fs_op.first_cluster,
                     WalkFuel)

\* a directory whose chain runs into a free entry was listed
ListedIntoFreeEntry ==
    /\ fs_op.op = "list_chain"
    /\ fs_op.first_cluster = 3
    /\ And(disk.fat[3], MASK) = FREE
    /\ fs_op.result # Err("does not return")


\* a step of the scheduler entry that takes the lock and finds no process to
\* run
SchedulerFindsNothing ==
    /\ mode # "hung"
    /\ mode' = "hung"
    /\ lock = "free"
    /\ get_next_ready_process(processes, current_pid) = NoPid

\* C35: a scheduler run that finds no process to run has released the
\* process-manager lock by the time it idles, so that a later
\* queue_user_program, exit_current_process or timer tick can take it; the
\* lock is not held by a CPU that idles.
C35_IdleReleasesLock ==
    /\ [][SchedulerFindsNothing => lock' = "free"]_vars
    /\ [](mode = "hung" => lock # "schedule")

\* every other way out of the scheduler entry leaves the lock free: the
\* dispatch drops the guard before the context switch
DispatchReleasesLock ==
    [][(lock = "free" /\ mode' = "switch") => lock' = "free"]_vars


\* queue_user_program's call of create_process returns an error
CreateFails ==
    /\ lock = "queue_user"
    /\ lock' = "free"
    /\ created'.result \in {"OutOfMemory", "InvalidProgram"}

\* C36: when create_process returns OutOfMemory or InvalidProgram, the
\* process table, the current PID and the next PID are what they were before
\* the call.
C36_FailedCreateKeepsTable ==
    [][CreateFails =>
            /\ processes' = processes
            /\ current_pid' = current_pid
            /\ next_pid' = next_pid]_vars

\* a creation ran out of frames while a process of the table was running
C36_Witness ==
    /\ created.result = "OutOfMemory"
    /\ lock = "free"
    /\ current_pid # NoPid
    /\ Len(processes) >= 2


\* exit_current_process is about to kill a kernel process
KillsKernelProcess == mode = "exiting" /\ exiting.process_type = "Kernel"

\* C37: the exit of a kernel process returns no frame to the allocator and
\* leaves CR3 on the kernel's top-level table; whatever kernel processes
\* have been created and have exited, the frame of that table, which their
\* address-space handles name, is not on the free list and is still the
\* table the kernel has recorded as its own.
C37_KernelTableSurvivesExit ==
    /\ [](KernelFrame \notin free_frames)
    /\ [](KernelFrame \notin double_freed)
    /\ [](kernel_page_table \in {NoTable, KernelFrame})
    /\ [][KillsKernelProcess =>
              /\ free_frames' = free_frames
              /\ cr3' = KernelFrame]_vars

\* two kernel processes have been created and have exited, and the kernel
\* runs on its table
C37_Witness ==
    /\ mode = "kernel"
    /\ cr3 = KernelFrame
    /\ \E a, b \in born :
          /\ a.pid # b.pid
          /\ a.rip = KprocEntry /\ b.rip = KprocEntry
          /\ {a.pid, b.pid} \subseteq exited \ sys_exited
          /\ \A i \in 1..Len(processes) :
                processes[i].pid \notin {a.pid, b.pid}


InTaskQueue(task_id) ==
    \E i \in 1..Len(executor.task_queue) : executor.task_queue[i] = task_id

\* poll_next has returned Pending and the keyboard task has not been polled
\* since
ReturnedPending ==
    stream.pc = "pending" /\ executor.polling # KeyboardTask

\* a wake of the keyboard task has been issued (its ID is in the executor's
\* queue) or is still to be issued by the interrupt that pushed
WakeIssuedOrDue == InTaskQueue(KeyboardTask) \/ stream.irq \in {"wake", "waking"}

\* C38: in every interleaving of the producer (push, then WAKER.wake) with
\* poll_next (pop, register the waker, pop again) no wakeup is lost: whenever
\* a scancode is in the queue and poll_next has returned Pending, a wake of
\* the keyboard task has been issued or is about to be.
C38_NoLostWakeup ==
    (ReturnedPending /\ scancode_queue.items # <<>>) => WakeIssuedOrDue

\* poll_next registered its waker and returned Pending on an empty queue;
\* then a key was pushed and the wake put the task back in the executor's
\* queue
C38_Witness ==
    /\ ReturnedPending
    /\ scancode_queue.items # <<>>
    /\ stream.irq = "none"
    /\ InTaskQueue(KeyboardTask)
    /\ waker.slot = NoTask

\* a key went in between the first pop and the registration, and the second
\* pop found it
PushedBeforeRegister ==
    /\ stream.pc = "take"
    /\ stream.irq = "none"
    /\ stream.keys = 1
    /\ waker.slot = KeyboardTask
    /\ ~InTaskQueue(KeyboardTask)


\* the executor starts to poll a task
StartsPoll == executor.polling = NoTask /\ executor'.polling # NoTask

\* a poll returns Ready
ReturnsReady == executor'.done # executor.done

\* C39: a task whose poll has returned Ready is removed from the task map
\* together with its cached waker and is never polled again, whatever IDs
\* are left in the ready queue and whatever wakers fire later; the waker
\* cache holds entries only for tasks of the task map; every task that is
\* spawned gets polled.
C39_FinishedTaskNeverPolled ==
    /\ [][StartsPoll => executor'.polling \notin executor.done]_vars
    /\ [][ReturnsReady =>
              /\ executor'.done \cap executor'.tasks = {}
              /\ executor'.done \cap executor'.waker_cache = {}]_vars
    /\ [](executor.waker_cache \subseteq executor.tasks)
    /\ [](executor.done \cap executor.tasks = {})
    /\ \A task_id \in 1..MaxTasks :
          (task_id \in executor.tasks) ~> (task_id \in executor.polled)

\* a task returned Ready with its ID still in the ready queue and its waker
\* in other hands; the waker fired, both IDs were popped and skipped, and
\* the pass ended
C39_Witness ==
    /\ executor.pc = "idle"
    /\ executor.task_queue = <<>>
    /\ executor.fires = 1
    /\ \E task_id \in executor.done :
          /\ task_id \in executor.held
          /\ task_id \notin executor.tasks
    /\ KeyboardTask \in executor.waker_cache

====
